---- MODULE Spec2Model ----
(***************************************************************************)
(* A model of the Web-Calculator: the Calculator class of                  *)
(* js/modules/Calculator.js (expression buffer state machine and the       *)
(* rewrite / validate / evaluate pipeline).                                *)
(*                                                                         *)
(* Strings are sequences of one-character strings.  Three characters that  *)
(* TLA+ strings cannot hold are written by their code points, and a long   *)
(* decimal literal produced by String(number) is kept as one element (a    *)
(* "chunk") that behaves as a run of digits holding one decimal point.     *)
(***************************************************************************)
EXTENDS Integers, Sequences, FiniteSets, TLC

\* ------------------------------------------------------------------------
\* Characters
\* ------------------------------------------------------------------------
Times  == "U+00D7"
Divide == "U+00F7"
Minus  == "U+2212"

Digits == {"0", "1", "2", "3", "4", "5", "6", "7", "8", "9"}

LowerLetters == {"a", "b", "c", "d", "e", "f", "g", "h", "i", "j", "k", "l", "m",
                 "n", "o", "p", "q", "r", "s", "t", "u", "v", "w", "x", "y", "z"}

UpperLetters == {"A", "B", "C", "D", "E", "F", "G", "H", "I", "J", "K", "L", "M",
                 "N", "O", "P", "Q", "R", "S", "T", "U", "V", "W", "X", "Y", "Z"}

Letters == LowerLetters \cup UpperLetters

\* String(Math.PI), String(Math.E), String((1 + Math.sqrt(5)) / 2), and the
\* decimal string of a last result too long to spell out character by character.
StrPI  == "3.141592653589793"
StrE   == "2.718281828459045"
StrPHI == "1.618033988749895"
StrANS == "#String(lastResult)"

\* factorial's largest argument, and String(factorial(n)) for a factorial too
\* large to spell out; from 22! on the string is in exponent form (d.ddde+dd)
MaxFactorial == 170
FactChunk(n) == "String(factorial(" \o ToString(n) \o "))"
FactChunks == {FactChunk(n) : n \in 0..MaxFactorial}
ExponentChunks == {FactChunk(n) : n \in 22..MaxFactorial}

Chunks == {StrPI, StrE, StrPHI, StrANS} \cup FactChunks

IsDigit(c) == c \in Digits

\* \w of a JavaScript regular expression
IsWordChar(c) == c \in Digits \cup Letters \cup {"_"} \cup Chunks

\* \s of a JavaScript regular expression (the model's strings hold only the space)
IsSpace(c) == c = " "

\* ------------------------------------------------------------------------
\* Sequence helpers
\* ------------------------------------------------------------------------
Drop(s, n) == IF n >= Len(s) THEN <<>> ELSE SubSeq(s, n + 1, Len(s))

Take(s, n) == IF n <= 0 THEN <<>> ELSE SubSeq(s, 1, IF n > Len(s) THEN Len(s) ELSE n)

StartsWithAt(s, i, w) ==
    /\ i + Len(w) - 1 <= Len(s)
    /\ \A j \in 1..Len(w) : s[i + j - 1] = w[j]

EndsWith(s, c) == Len(s) > 0 /\ s[Len(s)] = c

Includes(s, c) == \E i \in 1..Len(s) : s[i] = c

\* String.prototype.trim
RECURSIVE TrimLeft(_)
TrimLeft(s) == IF Len(s) > 0 /\ IsSpace(s[1]) THEN TrimLeft(Tail(s)) ELSE s

RECURSIVE TrimRight(_)
TrimRight(s) ==
    IF Len(s) > 0 /\ IsSpace(s[Len(s)]) THEN TrimRight(Take(s, Len(s) - 1)) ELSE s

Trim(s) == TrimRight(TrimLeft(s))

\* ------------------------------------------------------------------------
\* Numbers.  A JavaScript value is a record tagged by k:
\*   "num"   the real r[1]/r[2] + (p[1]/p[2]) * pi, held exactly
\*   "sym"   a real the model does not compute: op applied to the values a;
\*           cls "fin" when it is known finite, "unk" when it may be NaN or
\*           infinite as well
\*   "nan", "inf" (s = 1 or -1), "null", "undef", "bool", "obj", "fn"
\*   "err"   a thrown exception (e is its constructor's name)
\* Arithmetic is that of the reals wherever the operands are held exactly.
\* ------------------------------------------------------------------------
ExactLimit == 30000

Abs(n) == IF n < 0 THEN -n ELSE n

RECURSIVE Gcd(_, _)
Gcd(a, b) == IF b = 0 THEN a ELSE Gcd(b, a % b)

Norm(n, d) ==
    LET g == Gcd(Abs(n), Abs(d))
        s == IF d < 0 THEN -1 ELSE 1
    IN  IF n = 0 THEN <<0, 1>> ELSE <<(s * n) \div g, (s * d) \div g>>

RZero == <<0, 1>>
RAdd(x, y) == Norm(x[1] * y[2] + y[1] * x[2], x[2] * y[2])
RNeg(x) == <<-x[1], x[2]>>
RSub(x, y) == RAdd(x, RNeg(y))
RMul(x, y) == Norm(x[1] * y[1], x[2] * y[2])
RDiv(x, y) == Norm(x[1] * y[2], x[2] * y[1])
RLess(x, y) == x[1] * y[2] < y[1] * x[2]
RIsInt(x) == x[2] = 1
RSmall(x) == Abs(x[1]) <= ExactLimit /\ x[2] <= ExactLimit

Lin(r, p) == [r |-> r, p |-> p, k |-> "num"]
Num(r) == Lin(r, RZero)
IntV(n) == Num(<<n, 1>>)
NaN == [k |-> "nan"]
Inf(s) == [s |-> s, k |-> "inf"]
Sym(op, a, cls) == [a |-> a, k |-> "sym", op |-> op, cls |-> cls]
Err(e) == [k |-> "err", e |-> e]
Null == [k |-> "null"]
Undefined == [k |-> "undef"]
True == [b |-> TRUE, k |-> "bool"]
False == [b |-> FALSE, k |-> "bool"]
Obj(name) == [k |-> "obj", name |-> name]
Fn(name) == [k |-> "fn", name |-> name]

\* Math.PI, Math.E and the golden ratio of the constants table
PI == Lin(RZero, <<1, 1>>)
E == Sym("E", <<>>, "fin")
PHI == Sym("PHI", <<>>, "fin")

IsErr(v) == v.k = "err"
IsNum(v) == v.k = "num"
IsRat(v) == v.k = "num" /\ v.p = RZero
IsIntVal(v) == IsRat(v) /\ RIsInt(v.r)
IsExact(v) == v.k = "num" /\ RSmall(v.r) /\ RSmall(v.p)
IsZero(v) == v.k = "num" /\ v.r = RZero /\ v.p = RZero

\* The sign of a "num": 1, -1, 0, or 2 when the bounds 333/106 < pi < 355/113
\* (or the exact range) do not decide it.
SignOf(v) ==
    LET sr == IF v.r[1] > 0 THEN 1 ELSE IF v.r[1] < 0 THEN -1 ELSE 0
        sp == IF v.p[1] > 0 THEN 1 ELSE IF v.p[1] < 0 THEN -1 ELSE 0
        q  == IF sp = 0 \/ ~IsExact(v) THEN <<0, 1>>
              ELSE Norm(Abs(v.r[1]) * v.p[2], v.r[2] * Abs(v.p[1]))
    IN  CASE sp = 0 -> sr
          [] sr = 0 \/ sr = sp -> sp
          [] ~IsExact(v) -> 2
          [] q[1] \div q[2] >= 4 -> sr
          [] q[1] \div q[2] <= 2 -> sp
          [] q[1] > 1000000 \/ q[2] > 1000000 -> 2
          [] q[1] * 113 > 355 * q[2] -> sr
          [] q[1] * 106 < 333 * q[2] -> sp
          [] OTHER -> 2

\* ToNumber of the language, on the values an expression can produce
ToNumber(v) ==
    CASE v.k \in {"num", "sym", "nan", "inf", "err"} -> v
      [] v.k = "null" -> IntV(0)
      [] v.k = "bool" -> IF v.b THEN IntV(1) ELSE IntV(0)
      [] OTHER -> NaN

IsFiniteKnown(v) == v.k = "num" \/ (v.k = "sym" /\ v.cls = "fin")

Neg(x) ==
    LET v == ToNumber(x)
    IN  CASE v.k = "num" -> Lin(RNeg(v.r), RNeg(v.p))
          [] v.k = "inf" -> Inf(-v.s)
          [] v.k = "sym" -> Sym("neg", <<v>>, v.cls)
          [] OTHER -> v

SymBin(op, l, r, fin) ==
    Sym(op, <<l, r>>, IF fin /\ IsFiniteKnown(l) /\ IsFiniteKnown(r) THEN "fin" ELSE "unk")

Add(x, y) ==
    LET l == ToNumber(x)
        r == ToNumber(y)
    IN  CASE l.k = "err" -> l
          [] r.k = "err" -> r
          [] l.k = "nan" \/ r.k = "nan" -> NaN
          [] l.k = "inf" /\ r.k = "inf" -> IF l.s = r.s THEN l ELSE NaN
          [] l.k = "inf" /\ IsFiniteKnown(r) -> l
          [] r.k = "inf" /\ IsFiniteKnown(l) -> r
          [] IsExact(l) /\ IsExact(r) -> Lin(RAdd(l.r, r.r), RAdd(l.p, r.p))
          [] OTHER -> SymBin("+", l, r, TRUE)

Sub(x, y) == Add(x, Neg(y))

Mul(x, y) ==
    LET l == ToNumber(x)
        r == ToNumber(y)
    IN  CASE l.k = "err" -> l
          [] r.k = "err" -> r
          [] l.k = "nan" \/ r.k = "nan" -> NaN
          [] l.k = "inf" /\ r.k = "inf" -> Inf(l.s * r.s)
          [] l.k = "inf" /\ r.k = "num" /\ SignOf(r) \in {-1, 0, 1} ->
                IF SignOf(r) = 0 THEN NaN ELSE Inf(l.s * SignOf(r))
          [] r.k = "inf" /\ l.k = "num" /\ SignOf(l) \in {-1, 0, 1} ->
                IF SignOf(l) = 0 THEN NaN ELSE Inf(r.s * SignOf(l))
          [] IsExact(l) /\ IsExact(r) /\ r.p = RZero ->
                Lin(RMul(l.r, r.r), RMul(l.p, r.r))
          [] IsIntVal(l) /\ IsIntVal(r) /\ ~IsZero(r)
                /\ Abs(l.r[1]) <= 2000000000 \div Abs(r.r[1]) ->
                IntV(l.r[1] * r.r[1])
          [] IsExact(l) /\ IsExact(r) /\ l.p = RZero ->
                Lin(RMul(l.r, r.r), RMul(l.r, r.p))
          [] OTHER -> SymBin("*", l, r, TRUE)

Div(x, y) ==
    LET l == ToNumber(x)
        r == ToNumber(y)
    IN  CASE l.k = "err" -> l
          [] r.k = "err" -> r
          [] l.k = "nan" \/ r.k = "nan" -> NaN
          [] l.k = "inf" /\ r.k = "inf" -> NaN
          [] r.k = "inf" /\ IsFiniteKnown(l) -> IntV(0)
          [] IsZero(r) /\ l.k = "num" /\ SignOf(l) \in {-1, 0, 1} ->
                IF SignOf(l) = 0 THEN NaN ELSE Inf(SignOf(l))
          [] IsZero(r) /\ l.k = "inf" -> l
          [] l.k = "inf" /\ r.k = "num" /\ SignOf(r) \in {-1, 1} -> Inf(l.s * SignOf(r))
          [] IsExact(l) /\ IsExact(r) /\ r.p = RZero /\ ~IsZero(r) ->
                Lin(RDiv(l.r, r.r), RDiv(l.p, r.r))
          [] IsExact(l) /\ IsExact(r) /\ r.r = RZero /\ l.r = RZero /\ ~IsZero(r) ->
                Num(RDiv(l.p, r.p))
          [] OTHER -> SymBin("/", l, r, r.k = "num" /\ ~IsZero(r))

\* b ** n for an exact rational b and an integer n >= 0, by repeated
\* multiplication; <<0, 0>> as soon as the product leaves the exact range.
RECURSIVE RPow(_, _)
RPow(b, n) ==
    IF n = 0 THEN <<1, 1>>
    ELSE LET h == RPow(b, n - 1)
         IN  IF h = <<0, 0>> \/ ~RSmall(h) THEN <<0, 0>> ELSE RMul(h, b)

Pow(x, y) ==
    LET b == ToNumber(x)
        e == ToNumber(y)
    IN  CASE b.k = "err" -> b
          [] e.k = "err" -> e
          [] IsZero(e) -> IntV(1)
          [] b.k = "nan" \/ e.k = "nan" -> NaN
          [] IsExact(b) /\ IsExact(e) /\ IsIntVal(e) /\ IsRat(b) /\ e.r[1] > 0 ->
                IF b.r = RZero \/ b.r = <<1, 1>> THEN b
                ELSE IF e.r[1] > 64 THEN Sym("**", <<b, e>>, "unk")
                ELSE IF RPow(b.r, e.r[1]) = <<0, 0>> THEN Sym("**", <<b, e>>, "fin")
                ELSE Num(RPow(b.r, e.r[1]))
          [] IsExact(b) /\ IsExact(e) /\ IsIntVal(e) /\ IsRat(b) /\ e.r[1] < 0 ->
                IF b.r = RZero THEN Inf(1)
                ELSE IF b.r = <<1, 1>> THEN b
                ELSE IF -e.r[1] > 64 \/ RPow(b.r, -e.r[1]) = <<0, 0>>
                     THEN Sym("**", <<b, e>>, "fin")
                     ELSE Num(RDiv(<<1, 1>>, RPow(b.r, -e.r[1])))
          [] b.k = "num" /\ e.k = "num" /\ SignOf(b) = -1 /\ ~IsIntVal(e) -> NaN
          [] b.k = "num" /\ IsRat(e) /\ SignOf(b) = 1 /\ IsExact(b) /\ IsExact(e)
                /\ Abs(e.r[1]) <= 32 * e.r[2] ->
                Sym("**", <<b, e>>, "fin")
          [] OTHER -> Sym("**", <<b, e>>, "unk")

\* ------------------------------------------------------------------------
\* The Math object.  A result is given exactly where the double is exact
\* (Math.sin(0), Math.asin(1), Math.sqrt(16), ...), and as a "sym" elsewhere.
\* ------------------------------------------------------------------------
HalfPI == Lin(RZero, <<1, 2>>)

UnaryCls(x) == IF IsFiniteKnown(x) THEN "fin" ELSE "unk"

\* the integer n >= 0 with n * n = m, or -1
RECURSIVE IRoot(_, _, _)
IRoot(m, deg, n) ==
    LET q == IF deg = 2 THEN n * n ELSE n * n * n
    IN  IF q = m THEN n ELSE IF q > m THEN -1 ELSE IRoot(m, deg, n + 1)

\* the integer n >= 0 with b ^ n = m, or -1
RECURSIVE ILog(_, _)
ILog(b, m) ==
    IF m = 1 THEN 0
    ELSE IF m % b # 0 THEN -1
    ELSE LET h == ILog(b, m \div b) IN IF h = -1 THEN -1 ELSE h + 1

RFloor(r) == r[1] \div r[2]

MathSin(x) ==
    CASE x.k \in {"nan", "inf"} -> NaN
      [] IsZero(x) -> IntV(0)
      [] x = HalfPI -> IntV(1)
      [] x = Neg(HalfPI) -> IntV(-1)
      [] OTHER -> Sym("sin", <<x>>, UnaryCls(x))

MathCos(x) ==
    CASE x.k \in {"nan", "inf"} -> NaN
      [] IsZero(x) -> IntV(1)
      [] x = PI \/ x = Neg(PI) -> IntV(-1)
      [] OTHER -> Sym("cos", <<x>>, UnaryCls(x))

MathTan(x) ==
    CASE x.k \in {"nan", "inf"} -> NaN
      [] IsZero(x) -> IntV(0)
      [] OTHER -> Sym("tan", <<x>>, UnaryCls(x))

\* |x| > 1 for a "num" x, as far as the bounds on pi decide it
OutsideUnit(x) == SignOf(Sub(x, IntV(1))) = 1 \/ SignOf(Add(x, IntV(1))) = -1
InsideUnit(x) == SignOf(Sub(x, IntV(1))) \in {-1, 0} /\ SignOf(Add(x, IntV(1))) \in {0, 1}

MathAsin(x) ==
    CASE x.k \in {"nan", "inf"} -> NaN
      [] IsZero(x) -> IntV(0)
      [] x = IntV(1) -> HalfPI
      [] x = IntV(-1) -> Neg(HalfPI)
      [] IsExact(x) /\ OutsideUnit(x) -> NaN
      [] IsExact(x) /\ InsideUnit(x) -> Sym("asin", <<x>>, "fin")
      [] OTHER -> Sym("asin", <<x>>, "unk")

MathAcos(x) ==
    CASE x.k \in {"nan", "inf"} -> NaN
      [] x = IntV(1) -> IntV(0)
      [] IsZero(x) -> HalfPI
      [] x = IntV(-1) -> PI
      [] IsExact(x) /\ OutsideUnit(x) -> NaN
      [] IsExact(x) /\ InsideUnit(x) -> Sym("acos", <<x>>, "fin")
      [] OTHER -> Sym("acos", <<x>>, "unk")

MathAtan(x) ==
    CASE x.k = "nan" -> NaN
      [] x.k = "inf" -> IF x.s = 1 THEN HalfPI ELSE Neg(HalfPI)
      [] IsZero(x) -> IntV(0)
      [] x = IntV(1) -> Lin(RZero, <<1, 4>>)
      [] x = IntV(-1) -> Lin(RZero, <<-1, 4>>)
      [] OTHER -> Sym("atan", <<x>>, UnaryCls(x))

\* Math.log (base 0), Math.log10 (base 10), Math.log2 (base 2)
MathLog(base, name, x) ==
    CASE x.k = "nan" -> NaN
      [] x.k = "inf" -> IF x.s = 1 THEN x ELSE NaN
      [] IsZero(x) -> Inf(-1)
      [] x = IntV(1) -> IntV(0)
      [] x = E /\ base = 0 -> IntV(1)
      [] x.k = "num" /\ SignOf(x) = -1 -> NaN
      [] IsExact(x) /\ IsIntVal(x) /\ base > 0 /\ x.r[1] > 0 /\ ILog(base, x.r[1]) >= 0 ->
            IntV(ILog(base, x.r[1]))
      [] IsExact(x) /\ SignOf(x) = 1 -> Sym(name, <<x>>, "fin")
      [] OTHER -> Sym(name, <<x>>, "unk")

MathRoot(deg, name, x) ==
    CASE x.k = "nan" -> NaN
      [] x.k = "inf" -> IF x.s = 1 \/ deg = 3 THEN x ELSE NaN
      [] IsZero(x) -> IntV(0)
      [] x.k = "num" /\ SignOf(x) = -1 /\ deg = 2 -> NaN
      [] IsExact(x) /\ IsRat(x) /\ IRoot(Abs(x.r[1]), deg, 0) >= 0 /\ IRoot(x.r[2], deg, 0) >= 0 ->
            Num(<<(IF x.r[1] < 0 THEN -1 ELSE 1) * IRoot(Abs(x.r[1]), deg, 0),
                  IRoot(x.r[2], deg, 0)>>)
      [] IsExact(x) /\ (deg = 3 \/ SignOf(x) = 1) -> Sym(name, <<x>>, "fin")
      [] OTHER -> Sym(name, <<x>>, "unk")

\* Math.exp overflows a double above 709.78...
MathExp(x) ==
    CASE x.k = "nan" -> NaN
      [] x.k = "inf" -> IF x.s = 1 THEN x ELSE IntV(0)
      [] IsZero(x) -> IntV(1)
      [] x = IntV(1) -> E
      [] IsExact(x) /\ IsRat(x) /\ RFloor(x.r) >= 710 -> Inf(1)
      [] IsExact(x) /\ IsRat(x) /\ RFloor(x.r) < 709 -> Sym("exp", <<x>>, "fin")
      [] OTHER -> Sym("exp", <<x>>, "unk")

MathAbs(x) ==
    CASE x.k = "nan" -> NaN
      [] x.k = "inf" -> Inf(1)
      [] x.k = "num" /\ SignOf(x) \in {0, 1} -> x
      [] x.k = "num" /\ SignOf(x) = -1 -> Neg(x)
      [] OTHER -> Sym("abs", <<x>>, UnaryCls(x))

\* Math.ceil, Math.floor, Math.round (round goes half up)
MathRounding(name, x) ==
    CASE x.k \in {"nan", "inf"} -> x
      [] IsExact(x) /\ IsRat(x) ->
            IntV(CASE name = "floor" -> RFloor(x.r)
                   [] name = "ceil" -> -RFloor(RNeg(x.r))
                   [] OTHER -> RFloor(RAdd(x.r, <<1, 2>>)))
      [] OTHER -> Sym(name, <<x>>, UnaryCls(x))

Arg(args, i) == IF i <= Len(args) THEN ToNumber(args[i]) ELSE NaN

MathFunctions == {"sin", "cos", "tan", "asin", "acos", "atan", "log", "log10", "log2",
                  "sqrt", "cbrt", "pow", "exp", "abs", "ceil", "floor", "round"}

\* Math[name](...args)
MathCall(name, args) ==
    LET x == Arg(args, 1)
    IN  CASE \E i \in 1..Len(args) : IsErr(args[i]) ->
                args[CHOOSE i \in 1..Len(args) :
                        IsErr(args[i]) /\ \A j \in 1..(i - 1) : ~IsErr(args[j])]
          [] name = "sin" -> MathSin(x)
          [] name = "cos" -> MathCos(x)
          [] name = "tan" -> MathTan(x)
          [] name = "asin" -> MathAsin(x)
          [] name = "acos" -> MathAcos(x)
          [] name = "atan" -> MathAtan(x)
          [] name = "log" -> MathLog(0, name, x)
          [] name = "log10" -> MathLog(10, name, x)
          [] name = "log2" -> MathLog(2, name, x)
          [] name = "sqrt" -> MathRoot(2, name, x)
          [] name = "cbrt" -> MathRoot(3, name, x)
          [] name = "pow" -> Pow(x, Arg(args, 2))
          [] name = "exp" -> MathExp(x)
          [] name = "abs" -> MathAbs(x)
          [] name \in {"ceil", "floor", "round"} -> MathRounding(name, x)

\* Math[name]
MathMember(name) ==
    CASE name = "PI" -> PI
      [] name = "E" -> E
      [] name \in MathFunctions -> Fn(name)
      [] OTHER -> Undefined

\* ------------------------------------------------------------------------
\* Numbers and strings: Number.prototype.toString, parseFloat, literals
\* ------------------------------------------------------------------------
DigitChars == <<"0", "1", "2", "3", "4", "5", "6", "7", "8", "9">>

DigitValue(c) == CHOOSE d \in 0..9 : DigitChars[d + 1] = c

RECURSIVE NatToChars(_)
NatToChars(n) ==
    IF n < 10 THEN <<DigitChars[n + 1]>>
    ELSE NatToChars(n \div 10) \o <<DigitChars[(n % 10) + 1]>>

\* the digits after the decimal point of rem/d (rem < d), d a product of 2s and 5s
RECURSIVE FracChars(_, _)
FracChars(rem, d) ==
    IF rem = 0 THEN <<>>
    ELSE <<DigitChars[((rem * 10) \div d) + 1]>> \o FracChars((rem * 10) % d, d)

RECURSIVE StripFactor(_, _)
StripFactor(n, f) == IF n % f = 0 THEN StripFactor(n \div f, f) ELSE n

Terminating(d) == StripFactor(StripFactor(d, 2), 5) = 1

\* a rational whose decimal string the model spells out
Spellable(v) ==
    /\ IsRat(v)
    /\ Abs(v.r[1]) < 1000000000
    /\ v.r[2] <= 100000
    /\ Terminating(v.r[2])

\* String(v) of a number v; a value whose digits the model does not hold is
\* the chunk StrANS (preceded by its sign when v is known negative)
NumberToString(v) ==
    CASE v.k = "nan" -> <<"N", "a", "N">>
      [] v.k = "inf" -> (IF v.s < 0 THEN <<"-">> ELSE <<>>)
                            \o <<"I", "n", "f", "i", "n", "i", "t", "y">>
      [] v.k = "num" /\ Spellable(v) ->
            LET n == Abs(v.r[1])
                d == v.r[2]
            IN  (IF v.r[1] < 0 THEN <<"-">> ELSE <<>>)
                    \o NatToChars(n \div d)
                    \o (IF n % d = 0 THEN <<>> ELSE <<".">> \o FracChars(n % d, d))
      [] v.k = "num" /\ SignOf(v) = -1 -> <<"-", StrANS>>
      [] OTHER -> <<StrANS>>

HasChunk(s) == \E i \in 1..Len(s) : s[i] \in Chunks

\* the value of digits [. digits] read from position i of s, as
\* [v |-> <<n, d>>, next |-> position after the literal, dots |-> points read]
RECURSIVE ReadDecimal(_, _, _, _, _)
ReadDecimal(s, i, n, d, seenDot) ==
    IF i <= Len(s) /\ IsDigit(s[i]) /\ n < 100000000 /\ d < 100000000
    THEN ReadDecimal(s, i + 1, n * 10 + DigitValue(s[i]),
                     IF seenDot THEN d * 10 ELSE d, seenDot)
    ELSE IF i <= Len(s) /\ s[i] = "." /\ ~seenDot
    THEN ReadDecimal(s, i + 1, n, d, TRUE)
    ELSE [v |-> Norm(n, d), next |-> i]

\* parseFloat(s): the longest numeric prefix after leading white space, else NaN
ParseFloat(str) ==
    LET s == TrimLeft(str)
        neg == Len(s) > 0 /\ s[1] = "-"
        t == IF Len(s) > 0 /\ s[1] \in {"-", "+"} THEN Tail(s) ELSE s
        hasDigit == \/ Len(t) >= 1 /\ IsDigit(t[1])
                    \/ Len(t) >= 2 /\ t[1] = "." /\ IsDigit(t[2])
        lit == ReadDecimal(t, 1, 0, 1, FALSE)
    IN  IF Len(t) > 0 /\ t[1] \in Chunks \ {StrPI, StrE, StrPHI}
        THEN Sym(t[1], <<>>, "fin")
        ELSE IF Len(t) > 0 /\ t[1] = StrPI THEN (IF neg THEN Neg(PI) ELSE PI)
        ELSE IF Len(t) > 0 /\ t[1] = StrE THEN (IF neg THEN Neg(E) ELSE E)
        ELSE IF Len(t) > 0 /\ t[1] = StrPHI THEN (IF neg THEN Neg(PHI) ELSE PHI)
        ELSE IF ~hasDigit THEN NaN
        ELSE IF neg THEN Neg(Num(lit.v)) ELSE Num(lit.v)

\* ------------------------------------------------------------------------
\* Calculator: the constants and functions tables, factorial
\* ------------------------------------------------------------------------
NameChars ==
    [pi |-> <<"p", "i">>, e |-> <<"e">>, phi |-> <<"p", "h", "i">>,
     ans |-> <<"a", "n", "s">>,
     sin |-> <<"s", "i", "n">>, cos |-> <<"c", "o", "s">>, tan |-> <<"t", "a", "n">>,
     asin |-> <<"a", "s", "i", "n">>, acos |-> <<"a", "c", "o", "s">>,
     atan |-> <<"a", "t", "a", "n">>, log |-> <<"l", "o", "g">>,
     log10 |-> <<"l", "o", "g", "1", "0">>, log2 |-> <<"l", "o", "g", "2">>,
     sqrt |-> <<"s", "q", "r", "t">>, cbrt |-> <<"c", "b", "r", "t">>,
     pow |-> <<"p", "o", "w">>, exp |-> <<"e", "x", "p">>, abs |-> <<"a", "b", "s">>,
     ceil |-> <<"c", "e", "i", "l">>, floor |-> <<"f", "l", "o", "o", "r">>,
     round |-> <<"r", "o", "u", "n", "d">>,
     factorial |-> <<"f", "a", "c", "t", "o", "r", "i", "a", "l">>,
     reciprocal |-> <<"r", "e", "c", "i", "p", "r", "o", "c", "a", "l">>,
     square |-> <<"s", "q", "u", "a", "r", "e">>, cube |-> <<"c", "u", "b", "e">>,
     percent |-> <<"p", "e", "r", "c", "e", "n", "t">>,
     Math |-> <<"M", "a", "t", "h">>, PI |-> <<"P", "I">>, E |-> <<"E">>,
     null |-> <<"n", "u", "l", "l">>, true |-> <<"t", "r", "u", "e">>,
     this |-> <<"t", "h", "i", "s">>,
     undefined |-> <<"u", "n", "d", "e", "f", "i", "n", "e", "d">>]

\* Object.keys(this.constants)
constants == <<"pi", "e", "phi">>

\* Object.keys(this.functions), in insertion order
functions ==
    <<"sin", "cos", "tan", "asin", "acos", "atan", "log", "log10", "log2", "sqrt",
      "cbrt", "pow", "exp", "abs", "ceil", "floor", "round", "factorial",
      "reciprocal", "square", "cube", "percent">>

Range(f) == {f[i] : i \in DOMAIN f}

\* lines 72-75: the loop, from i to num on result.  The iterations are taken
\* in the loop's order: those of the first half of i..num, then the others.
RECURSIVE FactorialLoop(_, _, _)
FactorialLoop(i, num, result) ==
    IF i > num THEN result
    ELSE IF i = num THEN Mul(result, IntV(i))
    ELSE LET mid == (i + num) \div 2
             first == FactorialLoop(i, mid, result)
         IN  IF IsErr(first) THEN first ELSE FactorialLoop(mid + 1, num, first)

\* factorial with the limit test off by one (num >= 170)
factorial_LimitOffByOne(n) ==
    LET num == ToNumber(n)
    IN  IF ~IsIntVal(num) \/ SignOf(num) = -1
        THEN Err("Factorial is only defined for non-negative integers")
        ELSE IF num.r[1] >= MaxFactorial THEN Err("Factorial too large (max 170)")
        ELSE IF num.r[1] <= 1 THEN IntV(1)
        ELSE FactorialLoop(2, num.r[1], IntV(1))

\* factorial(n): the value, or the error thrown
factorial(n) ==
    LET num == ToNumber(n)
    IN  IF ~IsIntVal(num) \/ SignOf(num) = -1
        THEN Err("Factorial is only defined for non-negative integers")
        ELSE IF num.r[1] > MaxFactorial THEN Err("Factorial too large (max 170)")
        ELSE IF num.r[1] <= 1 THEN IntV(1)
        ELSE FactorialLoop(2, num.r[1], IntV(1))

\* ------------------------------------------------------------------------
\* Regular-expression replacements of evaluate and processFunctionCalls
\* ------------------------------------------------------------------------
BoundaryBefore(s, i) == i = 1 \/ ~IsWordChar(s[i - 1])
BoundaryAfter(s, i) == i > Len(s) \/ ~IsWordChar(s[i])

\* s.replace(/w/g, r) from position i on: the replacement without the \b
RECURSIVE ReplaceWordFrom_AnyOccurrence(_, _, _, _)
ReplaceWordFrom_AnyOccurrence(s, i, w, r) ==
    IF i > Len(s) THEN <<>>
    ELSE IF StartsWithAt(s, i, w)
    THEN r \o ReplaceWordFrom_AnyOccurrence(s, i + Len(w), w, r)
    ELSE <<s[i]>> \o ReplaceWordFrom_AnyOccurrence(s, i + 1, w, r)

\* s.replace(/\bw\b/g, r) from position i on
RECURSIVE ReplaceWordFrom(_, _, _, _)
ReplaceWordFrom(s, i, w, r) ==
    IF i > Len(s) THEN <<>>
    ELSE IF StartsWithAt(s, i, w) /\ BoundaryBefore(s, i) /\ BoundaryAfter(s, i + Len(w))
    THEN r \o ReplaceWordFrom(s, i + Len(w), w, r)
    ELSE <<s[i]>> \o ReplaceWordFrom(s, i + 1, w, r)

ReplaceWord(s, w, r) == ReplaceWordFrom(s, 1, w, r)

\* s.replace(/c/g, r) for one character c
RECURSIVE ReplaceChar(_, _, _)
ReplaceChar(s, c, r) ==
    IF s = <<>> THEN <<>>
    ELSE (IF Head(s) = c THEN r ELSE <<Head(s)>>) \o ReplaceChar(Tail(s), c, r)

RECURSIVE SkipSpaces(_, _)
SkipSpaces(s, i) == IF i <= Len(s) /\ IsSpace(s[i]) THEN SkipSpaces(s, i + 1) ELSE i

\* the first position >= i of s holding c, or 0
RECURSIVE IndexOf(_, _, _)
IndexOf(s, c, i) ==
    IF i > Len(s) THEN 0 ELSE IF s[i] = c THEN i ELSE IndexOf(s, c, i + 1)

\* a match of /\bname\s*\(([^)]+)\)/ starting at position i of s:
\* [found, args (the capture), next (the position after the match)]
MatchCall(s, i, name) ==
    LET w == NameChars[name]
        open == SkipSpaces(s, i + Len(w))
        close == IndexOf(s, ")", open + 1)
    IN  IF /\ StartsWithAt(s, i, w)
           /\ BoundaryBefore(s, i)
           /\ open <= Len(s)
           /\ s[open] = "("
           /\ close > open + 1
        THEN [found |-> TRUE, args |-> SubSeq(s, open + 1, close - 1), next |-> close + 1]
        ELSE [found |-> FALSE, args |-> <<>>, next |-> i + 1]

\* isValidFunctionArgs(args): /^[0-9+\-*/().\s,]*$/ on the trimmed string
ArgChars == Digits \cup {"+", "-", "*", "/", "(", ")", ".", " ", ","}
                \cup (Chunks \ ExponentChunks)

isValidFunctionArgs(args) ==
    /\ args # <<>>
    /\ \A i \in 1..Len(Trim(args)) : Trim(args)[i] \in ArgChars

\* getMathEquivalent(funcName): every name of the loop maps to itself
getMathEquivalent(funcName) == funcName

MathDot == <<"M", "a", "t", "h", ".">>
DegSuffix == <<")", " ", "*", " ">> \o MathDot \o <<"P", "I", " ", "/", " ", "1", "8", "0", ")">>

\* String(factorial(num))
FactorialString(v, num) ==
    IF v.k = "num" /\ Spellable(v) THEN NumberToString(v) ELSE <<FactChunk(num.r[1])>>

Thrown(msg) == [s |-> <<>>, msg |-> msg, ok |-> FALSE]
Rewritten(s) == [s |-> s, msg |-> "", ok |-> TRUE]

\* the callback of one replace() of processFunctionCalls, for a match of
\* funcName with the capture args: the replacement text, or the error thrown
CallReplacement(funcName, args, angleMode) ==
    CASE funcName = "factorial" ->
            IF ~isValidFunctionArgs(args) THEN Thrown("Invalid arguments for factorial")
            ELSE LET num == ParseFloat(args)
                     v == factorial(num)
                 IN  IF IsErr(v) THEN Thrown(v.e) ELSE Rewritten(FactorialString(v, num))
      [] funcName = "reciprocal" ->
            Rewritten(<<"(", "1", "/", "(">> \o args \o <<")", ")">>)
      [] funcName = "square" ->
            Rewritten(MathDot \o <<"p", "o", "w", "(">> \o args \o <<",", " ", "2", ")">>)
      [] funcName = "cube" ->
            Rewritten(MathDot \o <<"p", "o", "w", "(">> \o args \o <<",", " ", "3", ")">>)
      [] funcName = "percent" ->
            Rewritten(<<"(", "(">> \o args \o <<")", "/", "1", "0", "0", ")">>)
      [] funcName \in {"sin", "cos", "tan"} ->
            IF angleMode = "deg"
            THEN Rewritten(MathDot \o NameChars[funcName] \o <<"(", "(">> \o args \o DegSuffix)
            ELSE Rewritten(MathDot \o NameChars[funcName] \o <<"(">> \o args \o <<")">>)
      [] OTHER ->
            IF ~isValidFunctionArgs(args)
            THEN Thrown("Invalid arguments for " \o funcName)
            ELSE Rewritten(MathDot \o NameChars[getMathEquivalent(funcName)]
                               \o <<"(">> \o args \o <<")">>)

\* processed.replace(/\bfuncName\s*\(([^)]+)\)/g, callback) from position i on
RECURSIVE ReplaceCallsFrom(_, _, _, _)
ReplaceCallsFrom(s, i, funcName, angleMode) ==
    IF i > Len(s) THEN Rewritten(<<>>)
    ELSE LET m == MatchCall(s, i, funcName)
             head == IF m.found THEN CallReplacement(funcName, m.args, angleMode)
                     ELSE Rewritten(<<s[i]>>)
             rest == ReplaceCallsFrom(s, m.next, funcName, angleMode)
         IN  IF ~head.ok THEN head
             ELSE IF ~rest.ok THEN rest
             ELSE Rewritten(head.s \o rest.s)

\* the replacements of processFunctionCalls, in the order the code makes them
RewriteOrder ==
    <<"factorial", "reciprocal", "square", "cube", "percent", "sin", "cos", "tan",
      "asin", "acos", "atan", "log", "log10", "log2", "sqrt", "cbrt", "pow", "exp",
      "abs", "ceil", "floor", "round">>

RECURSIVE ProcessFrom(_, _, _)
ProcessFrom(r, n, angleMode) ==
    IF ~r.ok \/ n > Len(RewriteOrder) THEN r
    ELSE ProcessFrom(ReplaceCallsFrom(r.s, 1, RewriteOrder[n], angleMode), n + 1, angleMode)

processFunctionCalls(expression, angleMode) == ProcessFrom(Rewritten(expression), 1, angleMode)

\* ------------------------------------------------------------------------
\* Validation: hasBalancedParentheses, isValidExpression, the allow-list
\* ------------------------------------------------------------------------
RECURSIVE BalancedFrom(_, _, _)
BalancedFrom(s, i, count) ==
    IF i > Len(s) THEN count = 0
    ELSE LET c == IF s[i] = "(" THEN count + 1
                  ELSE IF s[i] = ")" THEN count - 1 ELSE count
         IN  IF c < 0 THEN FALSE ELSE BalancedFrom(s, i + 1, c)

\* hasBalancedParentheses without the test count < 0 inside the loop
hasBalancedParentheses_CountOnly(expression) ==
    Cardinality({i \in 1..Len(expression) : expression[i] = "("})
        = Cardinality({i \in 1..Len(expression) : expression[i] = ")"})

hasBalancedParentheses(expression) == BalancedFrom(expression, 1, 0)

\* the character class of validPattern and allowedPattern:
\* [0-9+\-*/().\s,Math.sincostalogqrtbcexpfloorundefinedPI*]
AllowedChars ==
    Digits \cup {"+", "-", "*", "/", "(", ")", ".", " ", ","}
        \cup {"M", "a", "t", "h", "s", "i", "n", "c", "o", "l", "g", "q", "r", "b",
              "e", "x", "p", "f", "u", "d", "P", "I"}
        \cup Chunks

MatchesAllowed(expression) == \A i \in 1..Len(expression) : expression[i] \in AllowedChars

ArithChars == {"+", "-", "*", "/"}

\* /([+\-*/]{3,})/
HasOperatorRun(s) ==
    \E i \in 1..(Len(s) - 2) : {s[i], s[i + 1], s[i + 2]} \subseteq ArithChars

\* /[+\-*/]{1}[+*/]/
HasOperatorPair(s) ==
    \E i \in 1..(Len(s) - 1) : s[i] \in ArithChars /\ s[i + 1] \in {"+", "*", "/"}

\* /\*\*/
HasPower(s) == \E i \in 1..(Len(s) - 1) : s[i] = "*" /\ s[i + 1] = "*"

isValidExpression(expression) ==
    /\ hasBalancedParentheses(expression)
    /\ MatchesAllowed(expression)
    /\ ~HasOperatorRun(expression)
    /\ ~(HasOperatorPair(expression) /\ ~HasPower(expression))

\* ------------------------------------------------------------------------
\* safeEvaluate's sink: new Function('Math', '"use strict"; return ' + s)(Math)
\* The fragment of the language that the allow-list lets through is modelled:
\* decimal literals, identifiers, member access and calls on Math, unary and
\* binary + - * / **, the comma operator, parentheses, comments, ++ and --.
\* Not modelled and absent from every input of the model: exponent and
\* radix-prefixed literals, the keyword operators (in, instanceof, delete),
\* properties of values other than Math, line terminators.
\* ------------------------------------------------------------------------
Tok(t, v, s) == [s |-> s, v |-> v, t |-> t]
BadTok == Tok("bad", NaN, "")

\* the value a chunk stands for; ans is the magnitude of lastResult || 0
ChunkValue(c, ans) ==
    CASE c = StrPI -> PI
      [] c = StrE -> E
      [] c = StrPHI -> PHI
      [] c = StrANS -> ans
      [] OTHER -> factorial(IntV(CHOOSE n \in 0..MaxFactorial : FactChunk(n) = c))

IsIdentChar(c) == c \in Digits \cup Letters \cup {"_"}

RECURSIVE ReadIdent(_, _)
ReadIdent(s, i) ==
    IF i <= Len(s) /\ IsIdentChar(s[i])
    THEN LET r == ReadIdent(s, i + 1) IN [name |-> s[i] \o r.name, next |-> r.next]
    ELSE [name |-> "", next |-> i]

\* the position of the "*" of the first "*/" at or after i, or 0
RECURSIVE CommentEnd(_, _)
CommentEnd(s, i) ==
    IF i + 1 > Len(s) THEN 0
    ELSE IF s[i] = "*" /\ s[i + 1] = "/" THEN i
    ELSE CommentEnd(s, i + 1)

\* the tokens of s from position i on; afterOperand tells a division sign from
\* the start of a regular-expression literal.  A lexical error ends the
\* sequence with BadTok.
RECURSIVE Tokenize(_, _, _, _)
Tokenize(s, i, afterOperand, ans) ==
    IF i > Len(s) THEN <<>>
    ELSE LET c == s[i]
             n == IF i < Len(s) THEN s[i + 1] ELSE ""
         IN
         CASE IsSpace(c) -> Tokenize(s, i + 1, afterOperand, ans)
           [] c = "/" /\ n = "/" -> <<>>
           [] c = "/" /\ n = "*" ->
                IF CommentEnd(s, i + 2) = 0 THEN <<BadTok>>
                ELSE Tokenize(s, CommentEnd(s, i + 2) + 2, afterOperand, ans)
           [] c = "/" /\ n \notin {"/", "*"} /\ ~afterOperand ->
                IF IndexOf(s, "/", i + 1) = 0 THEN <<BadTok>>
                ELSE <<Tok("re", Obj("RegExp"), "")>>
                        \o Tokenize(s, IndexOf(s, "/", i + 1) + 1, TRUE, ans)
           [] c \in Chunks ->
                IF IsIdentChar(n) \/ n \in Chunks THEN <<BadTok>>
                ELSE <<Tok("num", ChunkValue(c, ans), "")>> \o Tokenize(s, i + 1, TRUE, ans)
           [] IsDigit(c) \/ (c = "." /\ IsDigit(n)) ->
                LET lit == ReadDecimal(s, i, 0, 1, FALSE)
                    after == IF lit.next <= Len(s) THEN s[lit.next] ELSE ""
                IN  IF (c = "0" /\ IsDigit(n)) \/ IsIdentChar(after) \/ after \in Chunks
                    THEN <<BadTok>>
                    ELSE <<Tok("num", Num(lit.v), "")>> \o Tokenize(s, lit.next, TRUE, ans)
           [] c \in Letters \cup {"_"} ->
                LET id == ReadIdent(s, i)
                IN  <<Tok("id", NaN, id.name)>> \o Tokenize(s, id.next, TRUE, ans)
           [] c \in {"*", "+", "-"} /\ n = c ->
                <<Tok("op", NaN, c \o c)>> \o Tokenize(s, i + 2, c # "*" /\ afterOperand, ans)
           [] c \in {"+", "-", "*", "/", "(", ",", "."} ->
                <<Tok("op", NaN, c)>> \o Tokenize(s, i + 1, FALSE, ans)
           [] c = ")" -> <<Tok("op", NaN, c)>> \o Tokenize(s, i + 1, TRUE, ans)
           [] OTHER -> <<BadTok>>

\* a parse: the value v of the expression read, the position i after it, ok
\* unless a syntax error was met, ref when the expression is a reference
Parsed(v, i, ref) == [i |-> i, v |-> v, ok |-> TRUE, ref |-> ref]
SyntaxError == [i |-> 0, v |-> Err("SyntaxError"), ok |-> FALSE, ref |-> FALSE]

IsOp(toks, i, s) == i <= Len(toks) /\ toks[i].t = "op" /\ toks[i].s = s

\* reserved words that can be spelled with the allowed letters
ReservedWords ==
    {"if", "in", "do", "for", "else", "delete", "function", "instanceof", "class",
     "case", "super", "export", "static", "let", "public", "protected", "interface"}

\* an identifier of the function body: its parameter Math, the literals, and
\* the global scope of a script run outside a browser window
IdentValue(name) ==
    CASE name = "Math" -> Obj("Math")
      [] name = "undefined" -> Undefined
      [] name = "null" -> Null
      [] name = "true" -> True
      [] name = "false" -> False
      [] name = "this" -> Undefined
      [] OTHER -> Err("ReferenceError")

Member(v, name) ==
    CASE IsErr(v) -> v
      [] v.k \in {"undef", "null"} -> Err("TypeError")
      [] v = Obj("Math") -> MathMember(name)
      [] OTHER -> Undefined

FirstErr(vs) ==
    vs[CHOOSE i \in 1..Len(vs) : IsErr(vs[i]) /\ \A j \in 1..(i - 1) : ~IsErr(vs[j])]

Call(f, args) ==
    CASE IsErr(f) -> f
      [] \E i \in 1..Len(args) : IsErr(args[i]) -> FirstErr(args)
      [] f.k = "fn" -> MathCall(f.name, args)
      [] OTHER -> Err("TypeError")

\* x++, x--, ++x, --x on a reference whose value is v
Update(v) ==
    CASE IsErr(v) -> v
      [] v.k = "undef" -> Err("TypeError")
      [] OTHER -> NaN

\* The parser.  Each operator below either reads a phrase at position i of
\* the tokens, or combines parses already made (its arguments a, b, l, r, u).
\* a , b
Sequence(a, b) ==
    IF ~b.ok THEN b ELSE Parsed(IF IsErr(a.v) THEN a.v ELSE b.v, b.i, FALSE)

\* l op r
Binary(op, l, r) ==
    IF ~r.ok THEN r
    ELSE Parsed(CASE op = "+" -> Add(l.v, r.v)
                  [] op = "-" -> Sub(l.v, r.v)
                  [] op = "*" -> Mul(l.v, r.v)
                  [] op = "/" -> Div(l.v, r.v)
                  [] op = "**" -> Pow(l.v, r.v),
                r.i, FALSE)

\* op u, for the prefix operators + - ++ --
Unary(op, u) ==
    IF ~u.ok THEN u
    ELSE CASE op = "-" -> Parsed(Neg(u.v), u.i, FALSE)
           [] op = "+" -> Parsed(ToNumber(u.v), u.i, FALSE)
           [] OTHER -> IF ~u.ref THEN SyntaxError ELSE Parsed(Update(u.v), u.i, FALSE)

\* l ++, l --
Postfix(toks, l) ==
    IF ~l.ok THEN l
    ELSE IF IsOp(toks, l.i, "++") \/ IsOp(toks, l.i, "--")
    THEN IF ~l.ref THEN SyntaxError ELSE Parsed(Update(l.v), l.i + 1, FALSE)
    ELSE l

\* l ( a )
CallOf(l, a) == IF ~a.ok THEN a ELSE Parsed(Call(l.v, a.v), a.i, FALSE)

\* the arguments a, rest
Prepend(a, rest) ==
    IF ~rest.ok THEN rest ELSE Parsed(<<a.v>> \o rest.v, rest.i, FALSE)

\* ( e )
CloseParen(toks, e) ==
    IF ~e.ok THEN e
    ELSE IF ~IsOp(toks, e.i, ")") THEN SyntaxError
    ELSE Parsed(e.v, e.i + 1, FALSE)

RECURSIVE ParseExpression(_, _), ParseExpressionRest(_, _), ParseAdditive(_, _),
          ParseAddRest(_, _), ParseMultiplicative(_, _), ParseMulRest(_, _),
          ParseExponent(_, _), ParseExponentRest(_, _, _), ParseUnary(_, _),
          ParsePostfix(_, _), ParseCallRest(_, _), ParseArguments(_, _),
          ParseArgumentsRest(_, _), ParsePrimary(_, _)

\* Expression: AssignmentExpression (, AssignmentExpression)*
ParseExpression(toks, i) == ParseExpressionRest(toks, ParseAdditive(toks, i))

ParseExpressionRest(toks, a) ==
    IF ~a.ok THEN a
    ELSE IF ~IsOp(toks, a.i, ",") THEN a
    ELSE Sequence(a, ParseExpression(toks, a.i + 1))

ParseAdditive(toks, i) == ParseAddRest(toks, ParseMultiplicative(toks, i))

ParseAddRest(toks, l) ==
    IF ~l.ok THEN l
    ELSE IF IsOp(toks, l.i, "+") \/ IsOp(toks, l.i, "-")
    THEN ParseAddRest(toks, Binary(toks[l.i].s, l, ParseMultiplicative(toks, l.i + 1)))
    ELSE l

ParseMultiplicative(toks, i) == ParseMulRest(toks, ParseExponent(toks, i))

ParseMulRest(toks, l) ==
    IF ~l.ok THEN l
    ELSE IF IsOp(toks, l.i, "*") \/ IsOp(toks, l.i, "/")
    THEN ParseMulRest(toks, Binary(toks[l.i].s, l, ParseExponent(toks, l.i + 1)))
    ELSE l

\* UnaryExpression | UpdateExpression ** ExponentiationExpression
ParseExponent(toks, i) == ParseExponentRest(toks, i, ParseUnary(toks, i))

ParseExponentRest(toks, i, b) ==
    IF ~b.ok THEN b
    ELSE IF ~IsOp(toks, b.i, "**") THEN b
    ELSE IF IsOp(toks, i, "+") \/ IsOp(toks, i, "-") THEN SyntaxError
    ELSE Binary("**", b, ParseExponent(toks, b.i + 1))

ParseUnary(toks, i) ==
    IF IsOp(toks, i, "+") \/ IsOp(toks, i, "-") \/ IsOp(toks, i, "++") \/ IsOp(toks, i, "--")
    THEN Unary(toks[i].s, ParseUnary(toks, i + 1))
    ELSE ParsePostfix(toks, i)

ParsePostfix(toks, i) == Postfix(toks, ParseCallRest(toks, ParsePrimary(toks, i)))

\* the member accesses and calls that follow a primary expression
ParseCallRest(toks, l) ==
    IF ~l.ok THEN l
    ELSE IF IsOp(toks, l.i, ".")
    THEN IF l.i + 1 <= Len(toks) /\ toks[l.i + 1].t = "id"
         THEN ParseCallRest(toks, Parsed(Member(l.v, toks[l.i + 1].s), l.i + 2, TRUE))
         ELSE SyntaxError
    ELSE IF IsOp(toks, l.i, "(")
    THEN ParseCallRest(toks, CallOf(l, ParseArguments(toks, l.i + 1)))
    ELSE l

\* the arguments after "(": v is the sequence of their values
ParseArguments(toks, i) ==
    IF IsOp(toks, i, ")") THEN Parsed(<<>>, i + 1, FALSE)
    ELSE ParseArgumentsRest(toks, ParseAdditive(toks, i))

ParseArgumentsRest(toks, a) ==
    IF ~a.ok THEN a
    ELSE IF IsOp(toks, a.i, ")") THEN Parsed(<<a.v>>, a.i + 1, FALSE)
    ELSE IF ~IsOp(toks, a.i, ",") THEN SyntaxError
    ELSE Prepend(a, ParseArguments(toks, a.i + 1))

ParsePrimary(toks, i) ==
    IF i > Len(toks) THEN SyntaxError
    ELSE CASE toks[i].t \in {"num", "re"} -> Parsed(toks[i].v, i + 1, FALSE)
           [] toks[i].t = "id" ->
                IF toks[i].s \in ReservedWords THEN SyntaxError
                ELSE Parsed(IdentValue(toks[i].s), i + 1,
                            toks[i].s \notin {"null", "true", "false", "this"})
           [] IsOp(toks, i, "(") -> CloseParen(toks, ParseExpression(toks, i + 1))
           [] OTHER -> SyntaxError

\* the completion of a body whose tokens are toks: r is the parse of its
\* expression, which must end where the tokens end
Completion(toks, r) ==
    IF ~r.ok \/ r.i # Len(toks) + 1 THEN Err("SyntaxError") ELSE r.v

RunTokens(toks) ==
    IF \E i \in 1..Len(toks) : toks[i].t = "bad" THEN Err("SyntaxError")
    ELSE IF toks = <<>> THEN Undefined
    ELSE Completion(toks, ParseExpression(toks, 1))

\* the value returned by the function built from the string s, or the error
\* thrown by building or calling it
RunFunction(s, ans) == RunTokens(Tokenize(s, 1, FALSE, ans))

\* ------------------------------------------------------------------------
\* Calculator.evaluate
\* ------------------------------------------------------------------------
\* a value the language treats as false
Falsy(v) ==
    \/ v.k \in {"null", "undef", "nan"}
    \/ IsZero(v)
    \/ v = False

\* String(v) as replace() and toString() produce it
ToStringValue(v) ==
    CASE v.k \in {"num", "sym", "nan", "inf"} -> NumberToString(v)
      [] v.k = "bool" -> IF v.b THEN NameChars["true"] ELSE <<"f", "a", "l", "s", "e">>
      [] OTHER -> <<"[", "o", "b", "j", "e", "c", "t", "]">>

\* the number that the chunk StrANS stands for in String(v)
AnsChunkValue(v) == IF v.k = "num" /\ ~Spellable(v) /\ SignOf(v) = -1 THEN Neg(v) ELSE v

\* the result of evaluate: ok and the value v returned, or the error thrown
\* (msg) and the stage that threw it; sink is the string handed to the
\* Function constructor when reached is true
Returned(v, sink) ==
    [v |-> v, msg |-> "", ok |-> TRUE, sink |-> sink, stage |-> "return", reached |-> TRUE]
Failed(msg, stage, reached, sink) ==
    [v |-> Err(msg), msg |-> msg, ok |-> FALSE, sink |-> sink, stage |-> stage,
     reached |-> reached]

\* lines 83-94: constant substitution and operator normalization
SubstituteConstants(expression, lastResult) ==
    ReplaceWord(
      ReplaceWord(
        ReplaceWord(
          ReplaceWord(expression, NameChars["pi"], <<StrPI>>),
          NameChars["e"], <<StrE>>),
        NameChars["phi"], <<StrPHI>>),
      NameChars["ans"],
      ToStringValue(IF Falsy(lastResult) THEN IntV(0) ELSE lastResult))

\* the normalization with % rewritten to a division
NormalizeOperators_PercentDivides(s) ==
    ReplaceChar(ReplaceChar(ReplaceChar(ReplaceChar(ReplaceChar(s, "^", <<"*", "*">>),
                                                    Times, <<"*">>),
                                        Divide, <<"/">>),
                            Minus, <<"-">>),
                "%", <<"/">>)

NormalizeOperators(s) ==
    ReplaceChar(ReplaceChar(ReplaceChar(ReplaceChar(s, "^", <<"*", "*">>),
                                        Times, <<"*">>),
                            Divide, <<"/">>),
                Minus, <<"-">>)

\* lines 104-115: the classification of safeEvaluate's result
Classify(result, sink) ==
    LET n == ToNumber(result)
    IN  CASE n.k = "nan" -> Failed("Result is not a number", "classify", TRUE, sink)
          [] n.k = "inf" -> Failed("Result is infinite", "classify", TRUE, sink)
          [] OTHER -> Returned(result, sink)

safeEvaluate(expression, ans) ==
    IF ~MatchesAllowed(expression)
    THEN Err("Expression contains invalid characters")
    ELSE RunFunction(expression, ans)

\* lines 105-118: result is what safeEvaluate(sink) returned or threw
Finish(result, sink) ==
    IF IsErr(result)
    THEN Failed(result.e, "safeEvaluate", MatchesAllowed(sink), sink)
    ELSE Classify(result, sink)

\* lines 97-118: processed is what processFunctionCalls returned or threw
Validate(processed, ans) ==
    IF ~processed.ok THEN Failed(processed.msg, "processFunctionCalls", FALSE, <<>>)
    ELSE IF ~isValidExpression(processed.s)
    THEN Failed("Invalid expression", "isValidExpression", FALSE, <<>>)
    ELSE Finish(safeEvaluate(processed.s, ans), processed.s)

evaluate(expression, lastResult, angleMode) ==
    Validate(processFunctionCalls(
               NormalizeOperators(SubstituteConstants(expression, lastResult)), angleMode),
             AnsChunkValue(IF Falsy(lastResult) THEN IntV(0) ELSE lastResult))

\* ------------------------------------------------------------------------
\* The Calculator object and its methods, as functions from the object's
\* fields (a record c) to its fields after the call
\* ------------------------------------------------------------------------
VARIABLES
    expression,       \* this.expression, the expression buffer
    result,           \* this.result, the text getDisplayState shows as result
    lastResult,       \* this.lastResult (Null until an evaluation succeeds)
    memory,           \* this.memory
    isNewExpression,  \* this.isNewExpression: TRUE is Fresh, FALSE is Editing
    angleMode,        \* this.angleMode, "rad" or "deg"
    call,             \* the last call made on the calculator and what it returned
    out,              \* the outcome of the last run of evaluate
    history,          \* HistoryManager: this.history, most recent entry first
    storage,          \* localStorage: the items stored under 'calculator-history'
    now               \* the clock that Date.now() reads

vars == <<expression, result, lastResult, memory, isNewExpression, angleMode, call, out,
          history, storage, now>>

\* the calculator's fields, and the history manager's with its environment
cvars == <<expression, result, lastResult, memory, isNewExpression, angleMode>>
hvars == <<history, storage, now>>

\* new HistoryManager() on an empty localStorage
NoHistory ==
    /\ history = <<>>
    /\ storage = <<>>
    /\ now = 0

\* bounds of the model: the longest buffer an append may build, and the
\* largest magnitude the memory register may take
MaxLen == 2
MaxMemory == 1
MaxResult == 2

Fields == [result |-> result, angleMode |-> angleMode, expression |-> expression,
           lastResult |-> lastResult, memory |-> memory,
           isNewExpression |-> isNewExpression]

\* what a call returned: kind "null", "result" ({expression, result}),
\* "value" (a plain value) or "throw"
Ret(kind, e, v) == [expression |-> e, kind |-> kind, value |-> v]
RetNull == Ret("null", <<>>, Null)

NoOutcome == Failed("", "none", FALSE, <<>>)

\* constructor, then init()
Constructed ==
    [result |-> <<"0">>, angleMode |-> "rad", expression |-> <<>>, lastResult |-> Null,
     memory |-> IntV(0), isNewExpression |-> TRUE]

updateDisplay(c) ==
    IF Falsy(c.lastResult)
    THEN [c EXCEPT !.result = IF c.expression = <<>> THEN <<"0">> ELSE c.expression]
    ELSE c

isNumber(value) == value \in Digits \cup {"."}

isOperator(value) == value \in {"+", "-", "*", "/", "(", ")", "^", "%"}

isFunction(value) == value \in Range(functions)

isConstant(value) == value \in Range(constants)

\* the match of /[0-9.]+$/ on s, or the empty string
RECURSIVE LastNumber(_)
LastNumber(s) ==
    IF Len(s) > 0 /\ s[Len(s)] \in Digits \cup {"."}
    THEN LastNumber(Take(s, Len(s) - 1)) \o <<s[Len(s)]>>
    ELSE <<>>

\* appendNumber without its Fresh branch
appendNumber_AlwaysAppends(c, number) ==
    IF number = <<".">> /\ Includes(LastNumber(c.expression), ".") THEN c
    ELSE IF number = <<"0">> /\ c.expression = <<"0">> THEN c
    ELSE [c EXCEPT !.expression = c.expression \o number, !.isNewExpression = FALSE]

appendNumber(c, number) ==
    IF c.isNewExpression
    THEN [c EXCEPT !.expression = number, !.result = <<>>, !.isNewExpression = FALSE]
    ELSE IF number = <<".">> /\ Includes(LastNumber(c.expression), ".") THEN c
    ELSE IF number = <<"0">> /\ c.expression = <<"0">> THEN c
    ELSE [c EXCEPT !.expression = c.expression \o number]

operatorMap(operator) ==
    CASE operator = "-" -> Minus
      [] operator = "*" -> Times
      [] operator = "/" -> Divide
      [] OTHER -> operator

appendOperator(c, operator) ==
    LET seeded == IF c.isNewExpression /\ c.lastResult # Null
                  THEN [c EXCEPT !.expression = ToStringValue(c.lastResult),
                                 !.result = <<>>, !.isNewExpression = FALSE]
                  ELSE c
    IN  [seeded EXCEPT !.expression = seeded.expression \o <<operatorMap(operator)>>]

\* lines 391 and 405: whether a multiplication sign goes before the name
NeedsTimes(s) ==
    /\ s # <<>>
    /\ ~EndsWith(s, "(") /\ ~EndsWith(s, Times) /\ ~EndsWith(s, Divide)
    /\ ~EndsWith(s, "+") /\ ~EndsWith(s, Minus)

appendName(c, chars) ==
    LET started == IF c.isNewExpression
                   THEN [c EXCEPT !.expression = <<>>, !.isNewExpression = FALSE]
                   ELSE c
        e == started.expression
    IN  [started EXCEPT !.expression =
            (IF NeedsTimes(e) THEN e \o <<Times>> ELSE e) \o chars]

appendFunction(c, funcName) == appendName(c, NameChars[funcName] \o <<"(">>)

appendConstant(c, constant) == appendName(c, NameChars[constant])

\* clear that also resets the memory register
clear_ResetsMemory(c) ==
    updateDisplay([c EXCEPT !.expression = <<>>, !.result = <<>>, !.lastResult = Null,
                            !.isNewExpression = TRUE, !.memory = IntV(0)])

clear(c) ==
    updateDisplay([c EXCEPT !.expression = <<>>, !.result = <<>>, !.lastResult = Null,
                            !.isNewExpression = TRUE])

\* clearEntry taking the branch of line 441 in either mode
clearEntry_AlwaysClears(c) == clear(c)

clearEntry(c) ==
    IF c.isNewExpression THEN clear(c)
    ELSE updateDisplay([c EXCEPT !.expression = <<>>])

backspace(c) ==
    IF Len(c.expression) > 0
    THEN updateDisplay([c EXCEPT !.expression = Take(c.expression, Len(c.expression) - 1)])
    ELSE c

\* negate that never removes the sign it finds
negate_AlwaysPrepends(c) ==
    IF c.expression # <<>>
    THEN [c EXCEPT !.expression = <<"-">> \o c.expression]
    ELSE IF c.lastResult # Null
    THEN [c EXCEPT !.expression = <<"-", "(">> \o ToStringValue(c.lastResult) \o <<")">>,
                   !.isNewExpression = FALSE]
    ELSE c

negate(c) ==
    IF c.expression # <<>>
    THEN IF c.expression[1] = "-"
         THEN [c EXCEPT !.expression = Tail(c.expression)]
         ELSE [c EXCEPT !.expression = <<"-">> \o c.expression]
    ELSE IF c.lastResult # Null
    THEN [c EXCEPT !.expression = <<"-", "(">> \o ToStringValue(c.lastResult) \o <<")">>,
                   !.isNewExpression = FALSE]
    ELSE c

setExpression(c, e) ==
    updateDisplay([c EXCEPT !.expression = e, !.isNewExpression = FALSE])

setAngleMode(c, mode) ==
    IF mode \in {"rad", "deg"} THEN [c EXCEPT !.angleMode = mode] ELSE c

\* calculate() storing the result without returning to Fresh mode
calculate_StaysEditing(c, o) ==
    IF c.expression = <<>> THEN [c |-> c, ret |-> RetNull]
    ELSE IF ~o.ok THEN [c |-> c, ret |-> Ret("throw", <<>>, o.v)]
    ELSE [c |-> [c EXCEPT !.lastResult = o.v, !.result = ToStringValue(o.v)],
          ret |-> Ret("result", c.expression, o.v)]

\* calculate(), given the outcome o of evaluate(this.expression):
\* the fields after the call and what the call returned
calculate(c, o) ==
    IF c.expression = <<>> THEN [c |-> c, ret |-> RetNull]
    ELSE IF ~o.ok THEN [c |-> c, ret |-> Ret("throw", <<>>, o.v)]
    ELSE IF o.v.k \in {"null", "undef"}
    THEN [c |-> [c EXCEPT !.lastResult = o.v], ret |-> Ret("throw", <<>>, Err("TypeError"))]
    ELSE [c |-> [c EXCEPT !.lastResult = o.v, !.result = ToStringValue(o.v),
                          !.isNewExpression = TRUE],
          ret |-> Ret("result", c.expression, o.v)]

\* handleAction whose memory-add stores the last result instead of adding it
handleAction_AddOverwrites(c, action, o, random) ==
    IF action = "equals" THEN calculate(c, o)
    ELSE LET d ==
               CASE action = "clear" -> clear(c)
                 [] action = "ce" -> clearEntry(c)
                 [] action = "backspace" -> backspace(c)
                 [] action = "ans" ->
                      IF c.lastResult # Null
                      THEN appendNumber(c, ToStringValue(c.lastResult)) ELSE c
                 [] action = "memory-clear" -> [c EXCEPT !.memory = IntV(0)]
                 [] action = "memory-recall" -> appendNumber(c, ToStringValue(c.memory))
                 [] action = "memory-add" ->
                      [c EXCEPT !.memory =
                          IF Falsy(c.lastResult) THEN IntV(0) ELSE c.lastResult]
                 [] action = "memory-subtract" ->
                      [c EXCEPT !.memory =
                          Sub(c.memory, IF Falsy(c.lastResult) THEN IntV(0) ELSE c.lastResult)]
                 [] action = "random" -> appendNumber(c, random)
                 [] action = "negate" -> negate(c)
                 [] isNumber(action) -> appendNumber(c, <<action>>)
                 [] isOperator(action) -> appendOperator(c, action)
                 [] isFunction(action) -> appendFunction(c, action)
                 [] isConstant(action) -> appendConstant(c, action)
                 [] OTHER -> c
         IN  [c |-> updateDisplay(d), ret |-> RetNull]

\* handleAction(action): the fields after the call and what it returned; o is
\* the outcome of evaluate for 'equals', random the text of Math.random()
handleAction(c, action, o, random) ==
    IF action = "equals" THEN calculate(c, o)
    ELSE LET d ==
               CASE action = "clear" -> clear(c)
                 [] action = "ce" -> clearEntry(c)
                 [] action = "backspace" -> backspace(c)
                 [] action = "ans" ->
                      IF c.lastResult # Null
                      THEN appendNumber(c, ToStringValue(c.lastResult)) ELSE c
                 [] action = "memory-clear" -> [c EXCEPT !.memory = IntV(0)]
                 [] action = "memory-recall" -> appendNumber(c, ToStringValue(c.memory))
                 [] action = "memory-add" ->
                      [c EXCEPT !.memory =
                          Add(c.memory, IF Falsy(c.lastResult) THEN IntV(0) ELSE c.lastResult)]
                 [] action = "memory-subtract" ->
                      [c EXCEPT !.memory =
                          Sub(c.memory, IF Falsy(c.lastResult) THEN IntV(0) ELSE c.lastResult)]
                 [] action = "random" -> appendNumber(c, random)
                 [] action = "negate" -> negate(c)
                 [] isNumber(action) -> appendNumber(c, <<action>>)
                 [] isOperator(action) -> appendOperator(c, action)
                 [] isFunction(action) -> appendFunction(c, action)
                 [] isConstant(action) -> appendConstant(c, action)
                 [] OTHER -> c
         IN  [c |-> updateDisplay(d), ret |-> RetNull]

getDisplayState(c) ==
    [expression |-> IF c.expression = <<>> THEN <<"0">> ELSE c.expression,
     result |-> IF c.result # <<>> THEN c.result
                ELSE IF c.lastResult # Null THEN ToStringValue(c.lastResult)
                ELSE <<"0">>]

\* ------------------------------------------------------------------------
\* The state machine
\* ------------------------------------------------------------------------
\* the last call made on the calculator: the method, the action or function
\* name it was given, its other arguments, what it returned or threw, and,
\* when the call before it was a handleAction, how that one returned
Called(op, action, args, ret) ==
    [op |-> op, args |-> args,
     after |-> IF call.op = "handleAction" THEN call.ret.kind ELSE "none",
     ret |-> ret, action |-> action]

Init ==
    /\ expression = Constructed.expression
    /\ result = Constructed.result
    /\ lastResult = Constructed.lastResult
    /\ memory = Constructed.memory
    /\ isNewExpression = Constructed.isNewExpression
    /\ angleMode = Constructed.angleMode
    /\ call = [op |-> "new", args |-> <<>>, after |-> "none", ret |-> RetNull, action |-> ""]
    /\ out = NoOutcome
    /\ NoHistory

Install(c) ==
    /\ expression' = c.expression
    /\ result' = c.result
    /\ lastResult' = c.lastResult
    /\ memory' = c.memory
    /\ isNewExpression' = c.isNewExpression
    /\ angleMode' = c.angleMode

\* the model keeps a buffer that grows within MaxLen characters, spelled out
\* character by character, a memory register within MaxMemory, and follows a
\* numeric result when it is an integer within MaxResult
WithinBounds(c) ==
    /\ Len(c.expression) > Len(expression) => Len(c.expression) <= MaxLen
    /\ ~HasChunk(c.expression)
    /\ c.lastResult # lastResult =>
          /\ c.lastResult.k # "sym"
          /\ c.lastResult.k = "num" =>
                /\ IsIntVal(c.lastResult)
                /\ Abs(c.lastResult.r[1]) <= MaxResult
    /\ c.memory # memory =>
          /\ IsIntVal(c.memory)
          /\ Abs(c.memory.r[1]) <= MaxMemory

\* the outcomes evaluate can have when o is what the model computes: a value
\* the model cannot classify may be finite, NaN or infinite
Outcomes(o) ==
    IF o.ok /\ o.v.k = "sym" /\ o.v.cls = "unk"
    THEN {o, Failed("Result is not a number", "classify", TRUE, o.sink),
          Failed("Result is infinite", "classify", TRUE, o.sink)}
    ELSE {o}

\* the text Math.random().toString() may give
RandomStrings == {<<"0", ".", "5">>}

\* the actions the user interface sends
Actions ==
    {"1", ".", "+", "e", "equals", "clear", "ce", "backspace", "negate", "ans",
     "memory-clear", "memory-recall", "memory-add", "memory-subtract"}

\* the expressions setExpression installs (a click on a history item)
Expressions ==
    {<<"1", "+", "1">>, <<"1", "+", "+", "1">>, <<"1", "/", "0">>, <<"n", "u", "l", "l">>}

HandleAction(action) ==
    \E o \in (IF action = "equals" /\ expression # <<>>
              THEN Outcomes(evaluate(expression, lastResult, angleMode))
              ELSE {NoOutcome}),
       random \in RandomStrings :
        LET r == handleAction(Fields, action, o, random)
        IN  /\ WithinBounds(r.c)
            /\ Install(r.c)
            /\ call' = Called("handleAction", action, <<>>, r.ret)
            /\ out' = o
            /\ UNCHANGED hvars

SetExpression(e) ==
    /\ Install(setExpression(Fields, e))
    /\ call' = Called("setExpression", "", <<e>>, RetNull)
    /\ out' = NoOutcome
    /\ UNCHANGED hvars

SetAngleMode(mode) ==
    /\ Install(setAngleMode(Fields, mode))
    /\ call' = Called("setAngleMode", mode, <<>>, RetNull)
    /\ out' = NoOutcome
    /\ UNCHANGED hvars

Next ==
    \/ \E action \in Actions : HandleAction(action)
    \/ \E e \in Expressions : SetExpression(e)
    \/ \E mode \in {"rad", "deg"} : SetAngleMode(mode)

Spec == Init /\ [][Next]_vars

\* the calculator driven by handleAction alone: no buffer is installed
NextKeys ==
    \/ \E action \in Actions : HandleAction(action)
    \/ \E mode \in {"rad", "deg"} : SetAngleMode(mode)

SpecKeys == Init /\ [][NextKeys]_vars

\* ------------------------------------------------------------------------
\* The evaluator on its own: evaluate and factorial applied to inputs drawn
\* from bounded sets, on a calculator whose last result and angle mode vary
\* ------------------------------------------------------------------------
\* this.functions[name](...args), lines 19-51; Math.pow(x, 1/3) is the cube
\* root of an x that is not negative and NaN for a negative one
TableCall(name, args, mode) ==
    LET x == Arg(args, 1)
        deg == mode = "deg"
    IN  CASE name \in {"sin", "cos", "tan"} ->
                MathCall(name, <<IF deg THEN Div(Mul(x, PI), IntV(180)) ELSE x>>)
          [] name \in {"asin", "acos", "atan"} ->
                IF deg THEN Div(Mul(MathCall(name, <<x>>), IntV(180)), PI)
                ELSE MathCall(name, <<x>>)
          [] name = "cbrt" ->
                IF x.k = "num" /\ SignOf(x) = -1 THEN NaN ELSE MathCall("cbrt", <<x>>)
          [] name = "factorial" -> factorial(x)
          [] name = "reciprocal" -> Div(IntV(1), x)
          [] name = "square" -> Mul(x, x)
          [] name = "cube" -> Mul(Mul(x, x), x)
          [] name = "percent" -> Div(x, IntV(100))
          [] OTHER -> MathCall(name, args)

RECURSIVE Join(_)
Join(args) ==
    IF Len(args) = 0 THEN <<>>
    ELSE IF Len(args) = 1 THEN args[1]
    ELSE args[1] \o <<",">> \o Join(Tail(args))

\* the text name(args)
CallText(name, args) == NameChars[name] \o <<"(">> \o Join(args) \o <<")">>

\* the argument lists of the calls evaluated
Arguments ==
    {<<<<"1">>>>, <<<<"2">>>>, <<<<"3">>>>, <<<<"5", "0">>>>, <<<<"9", "0">>>>,
     <<<<"2", ".", "5">>>>, <<<<"-", "1">>>>, <<<<"1", "7", "1">>>>,
     <<<<"2", "+", "3">>>>, <<<<"(", "1", "+", "2", ")">>>>,
     <<<<"(", "1", "+", "2", ")", "+", "3">>>>, <<<<"2">>, <<"3">>>>,
     <<<<"2", "a">>>>}

\* the other expressions evaluated
EvalExpressions ==
    {<<"2", "+", "3">>, <<"2", "^", "3">>, <<"4", Times, "5">>, <<"1", "5", Divide, "3">>,
     <<"1", "0", Minus, "3">>, <<"1", "/", "0">>, <<"0", "/", "0">>,
     <<"2", "+", "+", "3">>, <<"2", "+", "3", ")">>, <<"5", "+">>, <<"(", ")">>,
     <<"0", "1">>, <<"p", "i">>, <<"e">>, <<"p", "h", "i">>,
     <<"a", "n", "s", "+", "1">>, <<"n", "u", "l", "l">>, <<"t", "r", "u", "e">>,
     <<"t", "h", "i", "s">>, <<"M", "a", "t", "h">>,
     <<"u", "n", "d", "e", "f", "i", "n", "e", "d">>,
     <<"M", "a", "t", "h", ".", "P", "I">>, <<"a", "l", "e", "r", "t", "(", "1", ")">>,
     <<"s", "i", "n", "(", "p", "i", "/", "2", ")">>, <<"2", "%", "3">>, <<>>}

\* the last result the evaluator is started with
LastResults == {IntV(2)}

\* the arguments factorial is called with: the integers from -MaxArgument to
\* MaxFactorial + MaxArgument, and numbers that are no integers
MaxArgument == 3
FactorialArguments ==
    {IntV(n) : n \in (-MaxArgument)..(MaxFactorial + MaxArgument)}
        \cup {Num(<<1, 2>>), Num(<<5, 2>>), Num(<<-5, 2>>), PI, NaN, Inf(1), Inf(-1)}

InitEval ==
    /\ expression = Constructed.expression
    /\ result = Constructed.result
    /\ lastResult \in LastResults
    /\ memory = Constructed.memory
    /\ isNewExpression = Constructed.isNewExpression
    /\ angleMode = Constructed.angleMode
    /\ call = [op |-> "new", args |-> <<>>, after |-> "none", ret |-> RetNull, action |-> ""]
    /\ out = NoOutcome
    /\ NoHistory

EvalRet(e, o) == Ret(IF o.ok THEN "return" ELSE "throw", e, o.v)

\* evaluate(e) keeping the value it returns in lastResult
Evaluate_StoresResult(e) ==
    \E o \in Outcomes(evaluate(e, lastResult, angleMode)) :
        /\ call' = Called("evaluate", "", <<e>>, EvalRet(e, o))
        /\ out' = o
        /\ UNCHANGED hvars
        /\ lastResult' = IF o.ok THEN o.v ELSE lastResult
        /\ UNCHANGED <<expression, result, memory, isNewExpression, angleMode>>

\* evaluate(e)
Evaluate(e) ==
    \E o \in Outcomes(evaluate(e, lastResult, angleMode)) :
        /\ call' = Called("evaluate", "", <<e>>, EvalRet(e, o))
        /\ out' = o
        /\ UNCHANGED hvars
        /\ UNCHANGED <<expression, result, lastResult, memory, isNewExpression, angleMode>>

\* evaluate of the text name(args)
EvaluateCall(name, args) ==
    \E o \in Outcomes(evaluate(CallText(name, args), lastResult, angleMode)) :
        /\ call' = Called("evaluate", name, args, EvalRet(CallText(name, args), o))
        /\ out' = o
        /\ UNCHANGED hvars
        /\ UNCHANGED <<expression, result, lastResult, memory, isNewExpression, angleMode>>

\* what a call of factorial that computed f returns or throws
FactorialRet(f) == Ret(IF IsErr(f) THEN "throw" ELSE "return", <<>>, f)

\* factorial(n)
CallFactorial(n) ==
    /\ call' = Called("factorial", "", <<n>>, FactorialRet(factorial(n)))
    /\ out' = NoOutcome
    /\ UNCHANGED hvars
    /\ UNCHANGED <<expression, result, lastResult, memory, isNewExpression, angleMode>>

NextEval ==
    \/ \E e \in EvalExpressions : Evaluate(e)
    \/ \E name \in Range(functions), args \in Arguments : EvaluateCall(name, args)
    \/ \E mode \in {"rad", "deg"} : SetAngleMode(mode)

SpecEval == InitEval /\ [][NextEval]_vars

NextFactorial == \E n \in FactorialArguments : CallFactorial(n)

SpecFactorial == Init /\ [][NextFactorial]_vars

\* ------------------------------------------------------------------------
\* Properties of handleAction('equals') and of the keys that follow it
\* ------------------------------------------------------------------------
EqualsCalled == call.op = "handleAction" /\ call.action = "equals"

\* C1: if handleAction('equals') fails (it throws), the expression buffer,
\* lastResult, the memory register, the Fresh/Editing mode and the angle mode
\* are what they were before the call, whatever the buffer held and however
\* it came to hold it (typed with handleAction or installed by setExpression).
C1_FailedEqualsChangesNothing ==
    [][(EqualsCalled' /\ call'.ret.kind = "throw")
        => UNCHANGED <<expression, lastResult, memory, isNewExpression, angleMode>>]_vars

\* C2: when handleAction('equals') has succeeded, the digit or decimal-point
\* action that comes next makes the buffer exactly that one character and
\* leaves the calculator in Editing mode.
C2_DigitAfterEqualsStartsAfresh ==
    (/\ call.op = "handleAction"
     /\ call.action \in Digits \cup {"."}
     /\ call.after = "result")
        => (expression = <<call.action>> /\ ~isNewExpression)

\* a digit typed right after 1+1 was evaluated to 2: the buffer is that digit
C2_Witness ==
    /\ call.op = "handleAction" /\ call.action = "1" /\ call.after = "result"
    /\ lastResult = IntV(2)
    /\ expression = <<"1">>
    /\ ~isNewExpression

\* C3: a handleAction('equals') that succeeds on a non-empty buffer stores the
\* value evaluate computed for the buffer in lastResult, makes the displayed result
\* the string of that value, enters Fresh mode and returns {expression, result}
\* with the buffer that was evaluated; on an empty buffer it returns null and
\* changes nothing.
C3_EqualsStoresAndReturnsResult ==
    [][EqualsCalled' =>
        IF expression = <<>>
        THEN /\ call'.ret = RetNull
             /\ UNCHANGED <<expression, result, lastResult, memory, isNewExpression,
                            angleMode>>
        ELSE call'.ret.kind = "result" =>
                /\ out' \in Outcomes(evaluate(expression, lastResult, angleMode))
                /\ out'.ok
                /\ lastResult' = out'.v
                /\ result' = ToStringValue(out'.v)
                /\ getDisplayState(Fields').result = ToStringValue(out'.v)
                /\ isNewExpression'
                /\ call'.ret = Ret("result", expression, out'.v)
                /\ UNCHANGED <<expression, memory, angleMode>>]_vars

\* equals on the installed buffer 1+1 returned {expression: '1+1', result: 2}
C3_Witness ==
    /\ EqualsCalled
    /\ call.ret = Ret("result", <<"1", "+", "1">>, IntV(2))
    /\ lastResult = IntV(2)
    /\ result = <<"2">>
    /\ isNewExpression

\* a string the Function constructor accepts as the body "return <s>"
WellFormed(s) == RunFunction(s, IntV(0)) # Err("SyntaxError")

\* C5: malformed input never reaches the numeric evaluation stage: when the
\* rewritten string of a buffer typed with handleAction is not a well-formed
\* arithmetic expression, evaluate has failed in the function-argument check
\* or in isValidExpression, and safeEvaluate was never given the string.
C5_MalformedStopsBeforeSink ==
    (EqualsCalled /\ out.reached) => WellFormed(out.sink)

\* ------------------------------------------------------------------------
\* Properties of evaluate
\* ------------------------------------------------------------------------
\* the names of the standard math primitives: Math.<function> and Math.PI
MathPrimitives == MathFunctions \cup {"PI"}

WordStart(s, i) == s[i] \in Letters \cup {"_"} /\ (i = 1 \/ ~IsIdentChar(s[i - 1]))

\* the identifier that starts at position i of s is Math of Math.<primitive>,
\* or the <primitive> of it
MathReference(s, i) ==
    LET w == ReadIdent(s, i)
    IN  \/ /\ w.name = "Math"
           /\ w.next < Len(s)
           /\ s[w.next] = "."
           /\ ReadIdent(s, w.next + 1).name \in MathPrimitives
        \/ /\ w.name \in MathPrimitives
           /\ i > Len(MathDot)
           /\ SubSeq(s, i - Len(MathDot), i - 1) = MathDot
           /\ WordStart(s, i - Len(MathDot))

\* s holds numeric literals, + - * /, parentheses, commas, whitespace and
\* references to the standard math primitives, and nothing else
ArithmeticOnly(s) ==
    \A i \in 1..Len(s) :
        /\ s[i] \in Letters \cup {"_"} \/ s[i] \in ArgChars \cup Chunks
        /\ WordStart(s, i) => MathReference(s, i)

\* C4: whatever string evaluate is given, the string handed to the Function
\* constructor holds only numeric literals, the operators + - * /, parentheses,
\* commas, whitespace and references Math.<function> or Math.PI: no other
\* identifier reaches execution.
C4_OnlyArithmeticReachesSink == out.reached => ArithmeticOnly(out.sink)

\* the call evaluated last was name(args) with one argument
EvaluatedCall(names) ==
    call.op = "evaluate" /\ call.action \in names /\ Len(call.args) = 1

\* the value of an argument text taken as an expression of its own
ArgOutcome(a) == evaluate(a, lastResult, "rad")
ArgValues(args) == [i \in DOMAIN args |-> ArgOutcome(args[i]).v]

IsLiteral(a) == a # <<>> /\ \A i \in 1..Len(a) : a[i] \in Digits \cup {"."}
IsParenthesised(a) ==
    /\ Len(a) > 2 /\ a[1] = "(" /\ a[Len(a)] = ")"
    /\ hasBalancedParentheses(SubSeq(a, 2, Len(a) - 1))

\* C6: in radian mode, for every name of the function table and arguments
\* that are numeric literals or parenthesised arithmetic expressions inside
\* the function's domain, evaluating name(args) succeeds with the table's
\* operation applied to the values of the arguments.
C6_CallYieldsTableOperation ==
    (/\ call.op = "evaluate" /\ call.action \in Range(functions)
     /\ Len(call.args) = (IF call.action = "pow" THEN 2 ELSE 1)
     /\ angleMode = "rad"
     /\ \A i \in DOMAIN call.args :
            /\ IsLiteral(call.args[i]) \/ IsParenthesised(call.args[i])
            /\ ArgOutcome(call.args[i]).ok
     /\ IsFiniteKnown(TableCall(call.action, ArgValues(call.args), "rad")))
        => /\ out.ok
           /\ out.v = TableCall(call.action, ArgValues(call.args), "rad")

\* C7: in degree mode sin, cos and tan are applied to the value of the whole
\* argument multiplied by pi/180, parenthesised sub-expressions included; in
\* radian mode to the value of the argument itself.
C7_TrigOfWholeArgument ==
    (EvaluatedCall({"sin", "cos", "tan"}) /\ ArgOutcome(call.args[1]).ok)
        => LET a == ArgOutcome(call.args[1]).v
               x == IF angleMode = "deg" THEN Mul(a, Div(PI, IntV(180))) ELSE a
           IN  out.ok /\ out.v = MathCall(call.action, <<x>>)

\* C8: in degree mode evaluating asin(x), acos(x) or atan(x) returns the
\* primitive's result multiplied by 180/pi.
C8_InverseTrigInDegrees ==
    (/\ EvaluatedCall({"asin", "acos", "atan"})
     /\ angleMode = "deg"
     /\ ArgOutcome(call.args[1]).ok
     /\ IsFiniteKnown(MathCall(call.action, <<ArgOutcome(call.args[1]).v>>)))
        => /\ out.ok
           /\ out.v = Div(Mul(MathCall(call.action, <<ArgOutcome(call.args[1]).v>>),
                              IntV(180)),
                          PI)

\* C9: a factorial call whose argument passes isValidFunctionArgs is replaced
\* by the factorial of the argument's numeric value (the call fails when that
\* factorial does); an argument that fails the check aborts evaluation with
\* the invalid-arguments error.
C9_FactorialOfArgumentValue ==
    EvaluatedCall({"factorial"}) =>
        IF isValidFunctionArgs(call.args[1])
        THEN ArgOutcome(call.args[1]).ok =>
                LET f == factorial(ArgOutcome(call.args[1]).v)
                IN  IF IsErr(f) THEN ~out.ok ELSE out.ok /\ out.v = f
        ELSE ~out.ok /\ out.msg = "Invalid arguments for factorial"

\* ------------------------------------------------------------------------
\* Properties of factorial
\* ------------------------------------------------------------------------
\* acc * lo * (lo + 1) * ... * hi, multiplied in that order
RECURSIVE ProductOnto(_, _, _)
ProductOnto(acc, lo, hi) ==
    IF hi < lo THEN acc
    ELSE IF lo = hi THEN Mul(acc, IntV(hi))
    ELSE LET mid == (lo + hi) \div 2
             below == ProductOnto(acc, lo, mid)
         IN  IF IsErr(below) THEN below ELSE ProductOnto(below, mid + 1, hi)

\* C10: factorial(n) fails for every n that is not finite, not an integer,
\* negative or greater than 170; it returns 1 for n = 0 and n = 1, and the
\* product 2 * 3 * ... * n for every integer n from 2 to 170.
C10_FactorialDomainAndValue ==
    call.op = "factorial" =>
        LET n == call.args[1]
        IN  IF n.k # "num" \/ ~IsIntVal(n) \/ n.r[1] < 0 \/ n.r[1] > 170
            THEN call.ret.kind = "throw"
            ELSE /\ call.ret.kind = "return"
                 /\ n.r[1] \in {0, 1} => call.ret.value = IntV(1)
                 /\ n.r[1] >= 2 => call.ret.value = ProductOnto(IntV(2), 3, n.r[1])

\* factorial(5) returned 120
C10_Witness ==
    /\ call.op = "factorial"
    /\ call.args = <<IntV(5)>>
    /\ call.ret = Ret("return", <<>>, IntV(120))

\* ------------------------------------------------------------------------
\* The validators on their own: isValidExpression and hasBalancedParentheses
\* applied to the buffer, which setExpression has made one of the strings of
\* at most MaxValidated characters drawn from a digit, the four arithmetic
\* operators and the two parentheses
\* ------------------------------------------------------------------------
MaxValidated == 5

ValidatedChars == {"2", "+", "-", "*", "/", "(", ")"}

RECURSIVE StringsOfLength(_, _)
StringsOfLength(chars, n) ==
    IF n = 0 THEN {<<>>}
    ELSE {<<c>> \o s : c \in chars, s \in StringsOfLength(chars, n - 1)}

ValidatedStrings == UNION {StringsOfLength(ValidatedChars, n) : n \in 0..MaxValidated}

Bool(b) == IF b THEN True ELSE False

\* new Calculator(), init(), then setExpression(s)
InitValidate ==
    \E s \in ValidatedStrings :
        /\ expression = setExpression(Constructed, s).expression
        /\ result = setExpression(Constructed, s).result
        /\ lastResult = setExpression(Constructed, s).lastResult
        /\ memory = setExpression(Constructed, s).memory
        /\ isNewExpression = setExpression(Constructed, s).isNewExpression
        /\ angleMode = setExpression(Constructed, s).angleMode
        /\ call = [op |-> "setExpression", args |-> <<s>>, after |-> "none",
                   ret |-> RetNull, action |-> ""]
        /\ out = NoOutcome
        /\ NoHistory

\* isValidExpression(this.expression)
IsValidExpression ==
    /\ call' = Called("isValidExpression", "", <<expression>>,
                      Ret("return", expression, Bool(isValidExpression(expression))))
    /\ out' = NoOutcome
    /\ UNCHANGED hvars
    /\ UNCHANGED <<expression, result, lastResult, memory, isNewExpression, angleMode>>

\* hasBalancedParentheses(this.expression)
HasBalancedParentheses ==
    /\ call' = Called("hasBalancedParentheses", "", <<expression>>,
                      Ret("return", expression, Bool(hasBalancedParentheses(expression))))
    /\ out' = NoOutcome
    /\ UNCHANGED hvars
    /\ UNCHANGED <<expression, result, lastResult, memory, isNewExpression, angleMode>>

NextValidate == IsValidExpression \/ HasBalancedParentheses

SpecValidate == InitValidate /\ [][NextValidate]_vars

\* ------------------------------------------------------------------------
\* Properties of the validators
\* ------------------------------------------------------------------------
\* three characters in a row from + - * /
HasRunOfThree(s) ==
    \E i \in 1..(Len(s) - 2) : {s[i], s[i + 1], s[i + 2]} \subseteq {"+", "-", "*", "/"}

\* two characters in a row from + - * / that are not the digraph **
HasPairOtherThanPower(s) ==
    \E i \in 1..(Len(s) - 1) :
        /\ {s[i], s[i + 1]} \subseteq {"+", "-", "*", "/"}
        /\ <<s[i], s[i + 1]>> # <<"*", "*">>

\* C11: isValidExpression returns false for every string that holds three or
\* more characters in a row from + - * /, and for every string that holds two
\* such characters in a row other than ** (2++2 is rejected, 2+2 is accepted).
C11_OperatorRunsRejected ==
    call.op = "isValidExpression" =>
        /\ (HasRunOfThree(call.args[1]) \/ HasPairOtherThanPower(call.args[1]))
                => call.ret.value = False
        /\ call.args[1] = <<"2", "+", "2">> => call.ret.value = True

\* the number of characters c among the first n of s
CountIn(s, n, c) == Cardinality({i \in 1..n : s[i] = c})

\* scanning s from the left, the count of ( minus ) never goes below zero
\* and ends at zero
DepthStaysBalanced(s) ==
    /\ \A n \in 0..Len(s) : CountIn(s, n, "(") >= CountIn(s, n, ")")
    /\ CountIn(s, Len(s), "(") = CountIn(s, Len(s), ")")

\* C12: hasBalancedParentheses(s) is true exactly when the count of ( minus )
\* over the prefixes of s never goes below zero and is zero for s itself, and
\* isValidExpression returns false for every s for which that is not so.
C12_BalancedParentheses ==
    /\ call.op = "hasBalancedParentheses" =>
            (call.ret.value = True <=> DepthStaysBalanced(call.args[1]))
    /\ (call.op = "isValidExpression" /\ ~DepthStaysBalanced(call.args[1]))
            => call.ret.value = False

\* hasBalancedParentheses(')(') returned false: the counts agree at the end
\* but the depth went below zero
C12_Witness ==
    /\ call.op = "hasBalancedParentheses"
    /\ call.args = << <<")", "(">> >>
    /\ call.ret.value = False

\* ------------------------------------------------------------------------
\* Constant substitution: evaluate applied to the names pi, e, phi and ans
\* standing alone, next to digits, letters and operators, and inside exp(,
\* with no last result, with the last result 0 and with the last result 2
\* ------------------------------------------------------------------------
SubstitutedNames == {NameChars["pi"], NameChars["e"], NameChars["phi"], NameChars["ans"]}

TextBefore == {<<>>, <<"2">>, <<"a">>, <<"2", "+">>, <<"(">>}

TextAfter == {<<>>, <<"2">>, <<"x">>, <<"+", "2">>, <<")">>, <<"x", "p", "(", "1", ")">>}

SubstitutedExpressions ==
    {before \o name \o after :
        before \in TextBefore, name \in SubstitutedNames, after \in TextAfter}

SubstitutedLastResults == {Null, IntV(0), IntV(2)}

InitSubstitute ==
    /\ expression = Constructed.expression
    /\ result = Constructed.result
    /\ lastResult \in SubstitutedLastResults
    /\ memory = Constructed.memory
    /\ isNewExpression = Constructed.isNewExpression
    /\ angleMode = Constructed.angleMode
    /\ call = [op |-> "new", args |-> <<>>, after |-> "none", ret |-> RetNull, action |-> ""]
    /\ out = NoOutcome
    /\ NoHistory

NextSubstitute == \E e \in SubstitutedExpressions : Evaluate(e)

SpecSubstitute == InitSubstitute /\ [][NextSubstitute]_vars

\* ------------------------------------------------------------------------
\* Properties of the constant substitution
\* ------------------------------------------------------------------------
\* the longest run of word characters (letters, digits, _) of s from position i
RECURSIVE WordAt(_, _)
WordAt(s, i) ==
    IF i > Len(s) \/ ~IsWordChar(s[i]) THEN <<>> ELSE <<s[i]>> \o WordAt(s, i + 1)

\* what a whole word stands for: the constant's decimal string, the string of
\* the last result (0 when there is none), or the word itself
WordText(w, last) ==
    CASE w = <<"p", "i">> -> <<StrPI>>
      [] w = <<"e">> -> <<StrE>>
      [] w = <<"p", "h", "i">> -> <<StrPHI>>
      [] w = <<"a", "n", "s">> -> IF last = Null THEN <<"0">> ELSE ToStringValue(last)
      [] OTHER -> w

\* s from position i on with every whole word replaced by what it stands for
RECURSIVE SubstituteWords(_, _, _)
SubstituteWords(s, i, last) ==
    IF i > Len(s) THEN <<>>
    ELSE IF WordAt(s, i) = <<>> THEN <<s[i]>> \o SubstituteWords(s, i + 1, last)
    ELSE WordText(WordAt(s, i), last) \o SubstituteWords(s, i + Len(WordAt(s, i)), last)

\* C13: the string evaluate hands on after constant substitution has exactly
\* the whole words pi, e, phi and ans replaced - by the constants' values and
\* by lastResult, or 0 when there is no result yet - and every other letter
\* sequence kept: the e of exp( and the pi or e inside a longer word stay.
C13_WholeWordSubstitution ==
    (call.op = "evaluate" /\ call.action = "" /\ out.reached) =>
        /\ out.sink = processFunctionCalls(
                          NormalizeOperators(SubstituteWords(call.args[1], 1, lastResult)),
                          angleMode).s
        /\ call.args[1] = <<"e", "x", "p", "(", "1", ")">>
                => out.sink = <<"M", "a", "t", "h", ".", "e", "x", "p", "(", "1", ")">>

\* evaluate('2+ans') with no last result handed on 2+0, and returned 2
C13_Witness ==
    /\ call.op = "evaluate"
    /\ call.args = << <<"2", "+", "a", "n", "s">> >>
    /\ lastResult = Null
    /\ out.ok
    /\ out.sink = <<"2", "+", "0">>
    /\ out.v = IntV(2)

C14_EvaluateReturnsFiniteNumber ==
    call.op = "evaluate" =>
        /\ out.ok => (out.v.k \in {"num", "sym"} /\ ToNumber(out.v).k \notin {"nan", "inf"})
        /\ (call.action = "" /\ call.args = << <<"0", "/", "0">> >>)
                => (~out.ok /\ out.msg = "Result is not a number")
        /\ (call.action = "" /\ call.args = << <<"1", "/", "0">> >>)
                => (~out.ok /\ out.msg = "Result is infinite")

\* ------------------------------------------------------------------------
\* Arithmetic: digits and the operator keys pressed one by one, and
\* arithmetic strings installed by setExpression, each followed by equals
\* ------------------------------------------------------------------------
\* the longest buffer the keys build, and the largest operand of the strings
\* setExpression installs
MaxTyped == 3
MaxOperand == 3

ArithmeticKeys == {"2", "3", "+", "-", "*", "/", "^", "equals"}

Glyphs == {"+", Minus, Times, Divide, "^"}

\* a op b, -a op b, a op -b and 0a op b for the operands up to MaxOperand,
\* and the strings 10-3, 15/3, 4*5 written with the display glyphs
ArithmeticStrings ==
    {NatToChars(a) \o <<g>> \o NatToChars(b) : a \in 0..MaxOperand, b \in 0..MaxOperand, g \in Glyphs}
        \cup {<<Minus, "2", g, "3">> : g \in Glyphs}
        \cup {<<"2", g, Minus, "3">> : g \in Glyphs}
        \cup {<<"0", "2", g, "3">> : g \in Glyphs}
        \cup {<<"1", "0", Minus, "3">>, <<"1", "5", Divide, "3">>, <<"4", Times, "5">>}

WithinTyped(c) ==
    /\ Len(c.expression) > Len(expression) => Len(c.expression) <= MaxTyped
    /\ ~HasChunk(c.expression)
    /\ c.lastResult # lastResult => c.lastResult.k = "num"

\* handleAction(action) for a digit, an operator or equals
PressKey(action) ==
    \E o \in (IF action = "equals" /\ expression # <<>>
              THEN Outcomes(evaluate(expression, lastResult, angleMode))
              ELSE {NoOutcome}),
       random \in RandomStrings :
        LET r == handleAction(Fields, action, o, random)
        IN  /\ WithinTyped(r.c)
            /\ Install(r.c)
            /\ call' = Called("handleAction", action, <<>>, r.ret)
            /\ out' = o
            /\ UNCHANGED hvars

NextArithmetic ==
    \/ \E action \in ArithmeticKeys : PressKey(action)
    \/ \E e \in ArithmeticStrings : SetExpression(e)

SpecArithmetic == Init /\ [][NextArithmetic]_vars

\* ------------------------------------------------------------------------
\* Appending: a digit, the eight operators, a function, a constant and equals
\* pressed on buffers of at most MaxAppended characters
\* ------------------------------------------------------------------------
MaxAppended == 2

AppendKeys == {"5", "+", "-", "*", "/", "^", "%", "(", ")", "sin", "pi", "equals"}

\* a key that makes the buffer longer by appending to it is pressed only on a
\* buffer of at most MaxAppended characters
WithinAppended(c) ==
    /\ (Len(c.expression) > Len(expression) /\ StartsWithAt(c.expression, 1, expression))
            => Len(expression) <= MaxAppended
    /\ ~HasChunk(c.expression)
    /\ c.lastResult # lastResult => c.lastResult.k \in {"num", "null"}

\* handleAction(action) for a key that appends, or equals
PressAppendKey(action) ==
    \E o \in (IF action = "equals" /\ expression # <<>>
              THEN Outcomes(evaluate(expression, lastResult, angleMode))
              ELSE {NoOutcome}),
       random \in RandomStrings :
        LET r == handleAction(Fields, action, o, random)
        IN  /\ WithinAppended(r.c)
            /\ Install(r.c)
            /\ call' = Called("handleAction", action, <<>>, r.ret)
            /\ out' = o
            /\ UNCHANGED hvars

NextAppend == \E action \in AppendKeys : PressAppendKey(action)

SpecAppend == Init /\ [][NextAppend]_vars

\* ------------------------------------------------------------------------
\* Properties of arithmetic
\* ------------------------------------------------------------------------
RECURSIVE Power(_, _)
Power(a, b) == IF b = 0 THEN 1 ELSE a * Power(a, b - 1)

\* x g y for integers x and y, as a fraction in lowest terms
Applied(g, x, y) ==
    CASE g = "+" -> <<x + y, 1>>
      [] g = Minus -> <<x - y, 1>>
      [] g = Times -> <<x * y, 1>>
      [] g = Divide -> Norm(x, y)
      [] g = "^" -> IF y >= 0 THEN <<Power(x, y), 1>> ELSE Norm(1, Power(x, -y))

\* x g y has a value, and the value is a double: an integer or a fraction
\* whose denominator is a small power of two
HasExactValue(g, x, y) ==
    /\ g = Divide => y # 0
    /\ g = "^" => (~(x = 0 /\ y <= 0) /\ Abs(x) <= 5 /\ Abs(y) <= 5)
    /\ Applied(g, x, y)[2] \in {1, 2, 4, 8}

\* the operands of the strings the model evaluates
Operands == 0..MaxOperand \cup {4, 5, 10, 15}

\* <<text, value>> for the arithmetic strings n, -n, a g b, 0a g b, a g -b
\* and -a g b (which is -(a ^ b) for the power operator)
ArithmeticFacts ==
    {<<NatToChars(n), <<n, 1>>>> : n \in 0..333}
        \cup {<<<<Minus>> \o NatToChars(n), <<-n, 1>>>> : n \in 0..33}
        \cup {<<NatToChars(a) \o <<g>> \o NatToChars(b), Applied(g, a, b)>> :
                 <<a, b, g>> \in {x \in Operands \X Operands \X Glyphs :
                                    HasExactValue(x[3], x[1], x[2])}}
        \cup {<<<<"0">> \o NatToChars(a) \o <<g>> \o NatToChars(b), Applied(g, a, b)>> :
                 <<a, b, g>> \in {x \in (Operands \ {0}) \X Operands \X Glyphs :
                                    HasExactValue(x[3], x[1], x[2])}}
        \cup {<<NatToChars(a) \o <<g, Minus>> \o NatToChars(b), Applied(g, a, -b)>> :
                 <<a, b, g>> \in {x \in Operands \X Operands \X Glyphs :
                                    HasExactValue(x[3], x[1], -x[2])}}
        \cup {<<<<Minus>> \o NatToChars(a) \o <<g>> \o NatToChars(b),
                 IF g = "^" THEN <<-Power(a, b), 1>> ELSE Applied(g, -a, b)>> :
                 <<a, b, g>> \in {x \in Operands \X Operands \X Glyphs :
                                    HasExactValue(x[3], x[1], x[2])}}

\* C15: when equals is handled on a buffer that is an arithmetic string of
\* digits and + - x / ^ with small operands and an exact value - typed key by
\* key or installed - it returns the mathematically correct value: 2+3 gives
\* 5, 10-3 gives 7, 4x5 gives 20, 15/3 gives 5 and 2^3 gives 8.
C15_ArithmeticIsCorrect ==
    EqualsCalled =>
        \A f \in ArithmeticFacts :
            expression = f[1] => (call.ret.kind = "result" /\ call.ret.value = Num(f[2]))

\* ------------------------------------------------------------------------
\* Properties of the editing keys
\* ------------------------------------------------------------------------
ActionCalled(action) == call.op = "handleAction" /\ call.action = action

\* C17: backspace removes exactly the last character of the buffer when the
\* calculator is Editing and the buffer is not empty; when the buffer is empty
\* or the calculator is Fresh (as it is right after a successful equals) it
\* leaves the buffer, the mode and lastResult as they were.
C17_BackspaceOnlyWhileEditing ==
    [][ActionCalled("backspace")' =>
        IF ~isNewExpression /\ expression # <<>>
        THEN /\ expression' = SubSeq(expression, 1, Len(expression) - 1)
             /\ UNCHANGED <<isNewExpression, lastResult>>
        ELSE UNCHANGED <<expression, isNewExpression, lastResult>>]_vars

\* the text a function or constant key appends
AppendedName(action) ==
    IF isFunction(action) THEN NameChars[action] \o <<"(">> ELSE NameChars[action]

\* the glyphs of the arithmetic operators in the buffer
OperatorGlyphs == {"+", Minus, Times, Divide, "^"}

\* C18: a function or constant key first empties the buffer if the calculator
\* is Fresh, then appends its name (a function's followed by an opening
\* parenthesis) and leaves the calculator Editing; a multiplication sign goes
\* before the name when the buffer ends with a digit, and none when the buffer
\* is empty or ends with an opening parenthesis or one of + - x / ^.
C18_ImplicitTimesBeforeName ==
    [][(call'.op = "handleAction" /\ (isFunction(call'.action) \/ isConstant(call'.action))) =>
        LET start == IF isNewExpression THEN <<>> ELSE expression
            name == AppendedName(call'.action)
        IN  /\ ~isNewExpression'
            /\ isFunction(call'.action) => EndsWith(expression', "(")
            /\ (start # <<>> /\ start[Len(start)] \in Digits)
                    => expression' = start \o <<Times>> \o name
            /\ (start = <<>> \/ EndsWith(start, "(") \/ start[Len(start)] \in OperatorGlyphs)
                    => expression' = start \o name]_vars

\* C19: an operator key (+ - * / ^ % ( )) leaves the calculator Editing with
\* the operator's glyph as the last character of the buffer; pressed while
\* Fresh with a last result it makes the buffer the last result followed by
\* the glyph; and the digit pressed right after an operator key is appended
\* to the buffer, after the glyph.
C19_OperatorEntersEditing ==
    [][/\ (call'.op = "handleAction" /\ isOperator(call'.action)) =>
            /\ ~isNewExpression'
            /\ EndsWith(expression', operatorMap(call'.action))
            /\ (isNewExpression /\ lastResult # Null)
                    => expression' = ToStringValue(lastResult) \o <<operatorMap(call'.action)>>
       /\ (/\ call.op = "handleAction" /\ isOperator(call.action)
           /\ call'.op = "handleAction" /\ call'.action \in Digits)
            => expression' = expression \o <<call'.action>>]_vars

\* the step emptied the buffer, set lastResult to none and entered Fresh mode,
\* with the display showing 0 and the memory and the angle mode kept
ClearedStep ==
    /\ expression' = <<>>
    /\ lastResult' = Null
    /\ isNewExpression'
    /\ result' = <<"0">>
    /\ UNCHANGED <<memory, angleMode>>

\* C20: clear empties the buffer, sets lastResult to none and enters Fresh
\* mode; ce does exactly that when the calculator is Fresh, and when it is
\* Editing empties the buffer only: lastResult, memory and the mode stay.
C20_ClearAndClearEntry ==
    [][/\ ActionCalled("clear")' => ClearedStep
       /\ ActionCalled("ce")' =>
            IF isNewExpression THEN ClearedStep
            ELSE /\ expression' = <<>>
                 /\ UNCHANGED <<lastResult, memory, isNewExpression, angleMode>>]_vars

\* ce pressed while Editing with the last result 1: the buffer is empty, the
\* last result is still 1 and the calculator is still Editing
C20_Witness ==
    /\ ActionCalled("ce")
    /\ expression = <<>>
    /\ lastResult = IntV(1)
    /\ ~isNewExpression

\* ------------------------------------------------------------------------
\* Negation: the sign key pressed on the numbers a user types and on an
\* emptied buffer
\* ------------------------------------------------------------------------
NegateKeys == {"5", ".", "-", "negate", "backspace", "ce", "equals"}

NextNegate == \E action \in NegateKeys : PressAppendKey(action)

SpecNegate == Init /\ [][NextNegate]_vars

\* digits with at most one decimal point, after at most one minus sign (the
\* sign negate writes, or the glyph of the minus key)
BareNumeric(s) ==
    LET body == IF s # <<>> /\ s[1] \in {"-", Minus} THEN Tail(s) ELSE s
    IN  /\ body # <<>>
        /\ \A i \in 1..Len(body) : body[i] \in Digits \cup {"."}
        /\ Cardinality({i \in 1..Len(body) : body[i] = "."}) <= 1

\* C21: on a non-empty buffer of digits and at most one decimal point,
\* optionally preceded by one minus sign, negate applied twice restores the
\* buffer; on an empty buffer with a last result, negate makes the buffer
\* -(lastResult) and the calculator Editing.
C21_NegateIsItsOwnInverse ==
    [][ActionCalled("negate")' =>
        /\ BareNumeric(expression) =>
              /\ expression' # expression
              /\ handleAction(Fields', "negate", NoOutcome, <<>>).c.expression = expression
        /\ (expression = <<>> /\ lastResult # Null) =>
              /\ expression' = <<"-", "(">> \o ToStringValue(lastResult) \o <<")">>
              /\ ~isNewExpression']_vars

\* negate has turned the buffer -5.5 back into 5.5
C21_Witness ==
    /\ ActionCalled("negate")
    /\ call.after = "null"
    /\ expression = <<"5", ".", "5">>
    /\ ~isNewExpression

\* negate pressed on a buffer emptied by ce, with the last result 5
C21_WitnessEmptied ==
    /\ ActionCalled("negate")
    /\ expression = <<"-", "(", "5", ")">>
    /\ lastResult = IntV(5)
    /\ ~isNewExpression

\* ------------------------------------------------------------------------
\* The memory register: every kind of action, and setAngleMode, on a
\* calculator whose memory and last result hold integers of magnitude at most
\* MaxStored
\* ------------------------------------------------------------------------
MaxStored == 1
MaxBefore == 1

MemoryKeys ==
    {"1", "+", "sin", "e", "equals", "clear", "ce", "backspace", "negate", "ans",
     "memory-clear", "memory-recall", "memory-add", "memory-subtract"}

\* a key that appends is pressed only on a buffer of at most MaxBefore
\* characters
WithinStored(c) ==
    /\ (Len(c.expression) > Len(expression) /\ StartsWithAt(c.expression, 1, expression))
            => Len(expression) <= MaxBefore
    /\ ~HasChunk(c.expression)
    /\ (c.lastResult # lastResult /\ c.lastResult # Null) =>
          /\ IsIntVal(c.lastResult)
          /\ Abs(c.lastResult.r[1]) <= MaxStored
    /\ c.memory # memory =>
          /\ IsIntVal(c.memory)
          /\ Abs(c.memory.r[1]) <= MaxStored

\* handleAction(action) on a calculator with a bounded memory register
PressMemoryKey(action) ==
    \E o \in (IF action = "equals" /\ expression # <<>>
              THEN Outcomes(evaluate(expression, lastResult, angleMode))
              ELSE {NoOutcome}),
       random \in RandomStrings :
        LET r == handleAction(Fields, action, o, random)
        IN  /\ WithinStored(r.c)
            /\ Install(r.c)
            /\ call' = Called("handleAction", action, <<>>, r.ret)
            /\ out' = o
            /\ UNCHANGED hvars

NextMemory ==
    \/ \E action \in MemoryKeys : PressMemoryKey(action)
    \/ \E mode \in {"rad", "deg"} : SetAngleMode(mode)

SpecMemory == Init /\ [][NextMemory]_vars

\* C22: the memory register changes only in a memory-add, memory-subtract or
\* memory-clear step: digits, operators, functions, constants, equals
\* (succeeding or failing), clear, ce, backspace, negate, ans, memory-recall
\* and setAngleMode leave it as it was.
C22_MemoryChangesOnlyByMemoryKeys ==
    [][memory' # memory =>
        /\ call'.op = "handleAction"
        /\ call'.action \in {"memory-add", "memory-subtract", "memory-clear"}]_vars

\* clear pressed with 1 in the memory register: the last result is gone and
\* the register still holds 1
C22_Witness ==
    /\ ActionCalled("clear")
    /\ lastResult = Null
    /\ memory = IntV(1)

\* the integer a register holds, 0 for a register that holds nothing
Held(v) == IF v = Null THEN 0 ELSE v.r[1]

\* the decimal string of an integer
DecimalString(n) == (IF n < 0 THEN <<"-">> ELSE <<>>) \o NatToChars(Abs(n))

maxHistoryItems == 50

\* an entry of the history
Item(id, e, r, timestamp) ==
    [result |-> r, expression |-> e, id |-> id, timestamp |-> timestamp]

isDuplicate(h, e, r) ==
    \E i \in 1..Len(h) : h[i].expression = e /\ h[i].result = r

\* JSON.stringify of the list, as JSON.parse reads it back: a result that is
\* NaN or infinite is written as null
Stringify(h) ==
    [i \in 1..Len(h) |->
        [h[i] EXCEPT !.result = IF @.k \in {"nan", "inf"} THEN Null ELSE @]]

\* saveHistory(): the storage after the call; setItem may throw (the quota is
\* exceeded, or storage is not available), and the error is logged only
saveHistory(h, stored, throws) == IF throws THEN stored ELSE <<Stringify(h)>>

\* addToHistory(expression, result) at time t: the list after the call
addToHistory(h, e, r, t) ==
    IF isDuplicate(h, e, r) THEN h
    ELSE Take(<<Item(t, e, r, t)>> \o h, maxHistoryItems)

removeHistoryItem(h, id) == SelectSeq(h, LAMBDA item : item.id # id)

\* importHistory(data): the list after the call, and the value returned
importHistory(h, data) ==
    IF data # Null
    THEN [c |-> Take(data.history, maxHistoryItems), ret |-> True]
    ELSE [c |-> h, ret |-> False]

\* loadHistory(): the list after the call; getItem may throw
loadHistory(h, stored, throws) ==
    IF throws THEN <<>>
    ELSE IF stored = <<>> THEN h
    ELSE stored[1]

\* bounds and inputs of the history's state machine
MaxAdded == 3

\* the entries of an exported history of n calculations, entry i made at
\* time -i
Exported(n) == [i \in 1..n |-> Item(-i, NatToChars(i), IntV(i), -i)]

Reversed(h) == [i \in 1..Len(h) |-> h[Len(h) + 1 - i]]

\* the data importHistory is given: no data, a history as exportHistory
\* writes it (at the cap, and beyond it), the same oldest entry first, and a
\* list that holds one calculation twice
ImportedData ==
    {Null,
     [history |-> Exported(maxHistoryItems)],
     [history |-> Exported(maxHistoryItems + 1)],
     [history |-> Reversed(Exported(maxHistoryItems))],
     [history |-> <<Item(-1, <<"1", "+", "1">>, IntV(2), -1),
                    Item(-2, <<"1", "+", "1">>, IntV(2), -2)>>]}

AddedExpressions == {<<"1", "+", "1">>, <<"2">>}
AddedResults == {IntV(2)}
RemovedIds == {-1, 0, 1}

AddToHistory(e, r) ==
    /\ now < MaxAdded
    /\ \E throws \in BOOLEAN :
        LET h == addToHistory(history, e, r, now)
        IN  /\ history' = h
            /\ storage' = IF isDuplicate(history, e, r) THEN storage
                          ELSE saveHistory(h, storage, throws)
            /\ now' = now + 1
    /\ call' = Called("addToHistory", "", <<[result |-> r, expression |-> e]>>, RetNull)
    /\ UNCHANGED <<cvars, out>>

ClearHistory ==
    /\ \E throws \in BOOLEAN :
        /\ history' = <<>>
        /\ storage' = saveHistory(<<>>, storage, throws)
    /\ call' = Called("clearHistory", "", <<>>, RetNull)
    /\ UNCHANGED <<cvars, out, now>>

RemoveHistoryItem(id) ==
    /\ \E throws \in BOOLEAN :
        LET h == removeHistoryItem(history, id)
        IN  /\ history' = h
            /\ storage' = saveHistory(h, storage, throws)
    /\ call' = Called("removeHistoryItem", "", <<id>>, RetNull)
    /\ UNCHANGED <<cvars, out, now>>

ImportHistory(data) ==
    /\ \E throws \in BOOLEAN :
        LET r == importHistory(history, data)
        IN  /\ history' = r.c
            /\ storage' = IF r.ret = True THEN saveHistory(r.c, storage, throws)
                          ELSE storage
            /\ call' = Called("importHistory", "", <<data>>, Ret("value", <<>>, r.ret))
    /\ UNCHANGED <<cvars, out, now>>

LoadHistory ==
    /\ \E throws \in BOOLEAN :
        history' = loadHistory(history, storage, throws)
    /\ call' = Called("loadHistory", "", <<>>, RetNull)
    /\ UNCHANGED <<cvars, out, storage, now>>

NextHistory ==
    \/ \E e \in AddedExpressions, r \in AddedResults : AddToHistory(e, r)
    \/ ClearHistory
    \/ \E id \in RemovedIds : RemoveHistoryItem(id)
    \/ \E data \in ImportedData : ImportHistory(data)
    \/ LoadHistory

SpecHistory == Init /\ [][NextHistory]_vars

\* ------------------------------------------------------------------------
\* Properties of the history
\* ------------------------------------------------------------------------
\* the pair an addToHistory call was given
AddedPair == call.args[1]

\* the entries of h that are no longer in g
Dropped(h, g) == {i \in 1..Len(h) : \A j \in 1..Len(g) : g[j] # h[i]}

\* C24: the history holds at most 50 entries; an entry that is added is
\* placed first; when adding to a full history, the entry dropped is the
\* oldest one; and the list written to storage is the list in memory.
C24_CappedNewestFirstAndStored ==
    [][/\ Len(history') <= maxHistoryItems
       /\ storage' # storage => storage' = <<history'>>
       /\ (call'.op = "addToHistory"
             /\ ~isDuplicate(history, AddedPair'.expression, AddedPair'.result)) =>
            /\ history'[1].expression = AddedPair'.expression
            /\ history'[1].result = AddedPair'.result
            /\ \A i \in Dropped(history, history') : \A j \in 1..Len(history) :
                    history[i].timestamp <= history[j].timestamp]_vars

\* C25: no two entries of the history have the same expression and the same
\* result, and adding a pair that is already there changes neither the
\* history nor the stored item.
C25_EntriesAreUnique ==
    [][/\ \A i, j \in 1..Len(history') :
            (history'[i].expression = history'[j].expression
                /\ history'[i].result = history'[j].result) => i = j
       /\ (call'.op = "addToHistory"
             /\ isDuplicate(history, AddedPair'.expression, AddedPair'.result)) =>
            UNCHANGED <<history, storage>>]_vars

\* ------------------------------------------------------------------------
\* The keyboard: a keydown event on the document, handled by the listeners
\* of KeyboardHandler and of App in the order they were added
\* ------------------------------------------------------------------------
\* this.keyMappings, KeyboardHandler.js lines 4-47, in the order of the object
\* literal: a key written twice keeps the action written last
KeyMappingEntries ==
    <<<<"0", "0">>, <<"1", "1">>, <<"2", "2">>, <<"3", "3">>, <<"4", "4">>,
      <<"5", "5">>, <<"6", "6">>, <<"7", "7">>, <<"8", "8">>, <<"9", "9">>,
      <<"+", "+">>, <<"-", "-">>, <<"*", "*">>, <<"/", "/">>,
      <<"Enter", "equals">>, <<"=", "equals">>,
      <<"Escape", "clear">>, <<"Delete", "clear">>,
      <<"Backspace", "backspace">>,
      <<".", ".">>, <<"(", "(">>, <<")", ")">>,
      <<"^", "^">>, <<"%", "%">>,
      <<"s", "sin">>, <<"c", "cos">>, <<"t", "tan">>,
      <<"l", "log">>, <<"q", "sqrt">>, <<"e", "exp">>,
      <<"b", "abs">>, <<"n", "negate">>, <<"r", "cbrt">>,
      <<"S", "sin">>, <<"C", "cos">>, <<"T", "tan">>,
      <<"L", "log">>, <<"Q", "sqrt">>, <<"E", "exp">>,
      <<"B", "abs">>, <<"N", "negate">>, <<"R", "cbrt">>,
      <<"p", "pi">>, <<"P", "pi">>, <<"E", "e">>,
      <<"m", "memory-recall">>, <<"M", "memory-add">>,
      <<"h", "history-toggle">>, <<"H", "history-toggle">>,
      <<"T", "theme-toggle">>,
      <<"a", "ans">>, <<"A", "ans">>,
      <<"w", "random">>, <<"W", "random">>,
      <<"f", "factorial">>, <<"F", "factorial">>,
      <<"Space", "equals">>,
      <<"Tab", "ans">>>>

\* this.keyMappings[key], "" for undefined
keyMappings(key) ==
    LET written == {i \in 1..Len(KeyMappingEntries) : KeyMappingEntries[i][1] = key}
    IN  IF written = {} THEN ""
        ELSE KeyMappingEntries[CHOOSE i \in written : \A j \in written : j <= i][2]

\* key.toLowerCase() for the keys of the model
toLowerCase(key) ==
    CASE key = "Enter" -> "enter"
      [] key = "Escape" -> "escape"
      [] key = "F9" -> "f9"
      [] \E i \in 1..26 : UpperLetters[i] = key ->
            LowerLetters[CHOOSE i \in 1..26 : UpperLetters[i] = key]
      [] OTHER -> key

\* getAction(key, event), "" for null
getAction(key) ==
    IF keyMappings(key) # "" THEN keyMappings(key)
    ELSE IF keyMappings(toLowerCase(key)) # "" THEN keyMappings(toLowerCase(key))
    ELSE IF key \in {"Enter", "="} THEN "equals"
    ELSE IF key \in {"Escape", "Delete"} THEN "clear"
    ELSE IF key = "Backspace" THEN "backspace"
    ELSE ""

\* a keydown event
KeyboardEvent(key, code, ctrlKey, shiftKey) ==
    [key |-> key, code |-> code, ctrlKey |-> ctrlKey, shiftKey |-> shiftKey,
     altKey |-> FALSE, metaKey |-> FALSE]

\* the shortcut string getShortcut builds, as the sequence of its parts
ShortcutString(event) ==
    (IF event.ctrlKey THEN <<"Ctrl+">> ELSE <<>>)
        \o (IF event.altKey THEN <<"Alt+">> ELSE <<>>)
        \o (IF event.shiftKey THEN <<"Shift+">> ELSE <<>>)
        \o (IF event.metaKey THEN <<"Meta+">> ELSE <<>>)
        \o <<event.code>>

\* this.shortcuts[shortcut], "" for undefined
shortcuts(shortcut) ==
    CASE shortcut \in {<<"Ctrl+", "KeyC">>, <<"Ctrl+", "KeyA">>} -> "clear"
      [] shortcut \in {<<"Ctrl+", "KeyH">>, <<"F2">>} -> "history-toggle"
      [] shortcut \in {<<"Ctrl+", "KeyT">>, <<"F3">>} -> "theme-toggle"
      [] shortcut \in {<<"Ctrl+", "KeyM">>, <<"F9">>} -> "memory-clear"
      [] shortcut \in {<<"Ctrl+", "KeyR">>, <<"F10">>} -> "memory-recall"
      [] shortcut = <<"Ctrl+", "KeyS">> -> "memory-add"
      [] shortcut = <<"Ctrl+", "KeyD">> -> "memory-subtract"
      [] shortcut = <<"Ctrl+", "KeyE">> -> "export-history"
      [] shortcut = <<"Ctrl+", "KeyI">> -> "import-history"
      [] shortcut = <<"Ctrl+", "KeyP">> -> "print"
      [] shortcut = <<"F1">> -> "help"
      [] shortcut = <<"F11">> -> "fullscreen"
      [] shortcut = <<"F12">> -> "dev-tools"
      [] OTHER -> ""

getShortcut(event) == shortcuts(ShortcutString(event))

\* the listener KeyboardHandler adds (line 89) is called with the event alone:
\* for a shortcut it dispatches 'keyboard-action', whose one listener
\* (UIManager.handleKeyboardAction) changes the page only; for any other key
\* its calculator parameter is undefined and no action is handled. The
\* calculator's fields after the listener has run:
handleKeyDown(c, event) == c

\* App.handleKeyboardInput(event): the calculator's fields after the call
\* and what calculator.handleAction returned; an error it throws is caught
handleKeyboardInput(c, event, o, random) ==
    LET action == getAction(event.key)
    IN  IF action \in {"", "history-toggle", "theme-toggle"}
        THEN [c |-> c, ret |-> RetNull]
        ELSE handleAction(c, action, o, random)

\* the events of the model: Ctrl+C, and the keys c 1 + Enter Escape h F9
KeyboardEvents ==
    {KeyboardEvent("c", "KeyC", TRUE, FALSE),
     KeyboardEvent("c", "KeyC", FALSE, FALSE),
     KeyboardEvent("1", "Digit1", FALSE, FALSE),
     KeyboardEvent("+", "Equal", FALSE, TRUE),
     KeyboardEvent("Enter", "Enter", FALSE, FALSE),
     KeyboardEvent("Escape", "Escape", FALSE, FALSE),
     KeyboardEvent("h", "KeyH", FALSE, FALSE),
     KeyboardEvent("F9", "F9", FALSE, FALSE)}

\* whether handleAction returned a calculation (Calculator.js line 634)
Calculated(ret) ==
    /\ ret.kind = "result"
    /\ ret.expression # <<>>
    /\ ret.value # Undefined

\* the history after App has handled what handleAction returned
Logged(h, ret, t) ==
    IF Calculated(ret) THEN addToHistory(h, ret.expression, ret.value, t) ELSE h

\* the state after the listeners have run: r is the calculator's fields and
\* what handleAction returned
Handled(r, event, o, throws) ==
    /\ WithinAppended(r.c)
    /\ Calculated(r.ret) => now < MaxAdded
    /\ Install(r.c)
    /\ history' = Logged(history, r.ret, now)
    /\ storage' = IF Logged(history, r.ret, now) # history
                  THEN saveHistory(Logged(history, r.ret, now), storage, throws)
                  ELSE storage
    /\ now' = IF Calculated(r.ret) THEN now + 1 ELSE now
    /\ call' = Called("keydown", event.key, ShortcutString(event), r.ret)
    /\ out' = o

\* a keydown event dispatched on the document: KeyboardHandler's listener,
\* then App's, which adds a calculation that succeeded to the history
Keydown(event) ==
    \E o \in (IF getAction(event.key) = "equals" /\ expression # <<>>
              THEN Outcomes(evaluate(expression, lastResult, angleMode))
              ELSE {NoOutcome}),
       random \in RandomStrings, throws \in BOOLEAN :
        Handled(handleKeyboardInput(handleKeyDown(Fields, event), event, o, random),
                event, o, throws)

NextKeyboard == \E event \in KeyboardEvents : Keydown(event)

SpecKeyboard == Init /\ [][NextKeyboard]_vars

\* C26: a Ctrl+C keydown clears the calculator (empty buffer, no last result,
\* Fresh) and appends nothing to the buffer.
C26_CtrlCClears ==
    [][(call'.op = "keydown" /\ call'.args = <<"Ctrl+", "KeyC">>) =>
        /\ expression' = <<>>
        /\ lastResult' = Null
        /\ isNewExpression']_vars

\* ------------------------------------------------------------------------
\* Numbers in the buffer: digits, the decimal point and the keys that append
\* the text of a number
\* ------------------------------------------------------------------------
PointKeys == {"1", ".", "+", "random", "memory-recall", "equals"}

NextPoints == \E action \in PointKeys : PressAppendKey(action)

SpecPoints == Init /\ [][NextPoints]_vars

ZeroKeys == {"0", "1", ".", "equals"}

NextZeros == \E action \in ZeroKeys : PressAppendKey(action)

SpecZeros == Init /\ [][NextZeros]_vars

\* the characters i..j of s are digits and decimal points
NumberRun(s, i, j) == \A n \in i..j : s[n] \in Digits \cup {"."}

\* C27: no run of digits and decimal points in the buffer holds more than
\* one decimal point, also after memory-recall or random has appended text.
C27_OnePointPerNumber ==
    \A i, j \in 1..Len(expression) :
        (i <= j /\ NumberRun(expression, i, j)) =>
            Cardinality({n \in i..j : expression[n] = "."}) <= 1

\* a number starts at position i of s with a 0 that a digit follows
LeadingZeroAt(s, i) ==
    /\ s[i] = "0"
    /\ i < Len(s)
    /\ s[i + 1] \in Digits
    /\ i > 1 => s[i - 1] \notin Digits \cup {"."}

\* s is the text of one number: digits, at least one, and at most one point
NumberText(s) ==
    /\ s # <<>>
    /\ NumberRun(s, 1, Len(s))
    /\ \E n \in 1..Len(s) : s[n] \in Digits
    /\ Cardinality({n \in 1..Len(s) : s[n] = "."}) <= 1

\* C28: after digit actions no number in the buffer starts with a 0 that a
\* digit follows, and equals on a buffer that is one typed number succeeds.
C28_NoLeadingZero ==
    [][/\ \A i \in 1..Len(expression') : ~LeadingZeroAt(expression', i)
       /\ (ActionCalled("equals")' /\ NumberText(expression)) => out'.ok]_vars

\* ------------------------------------------------------------------------
\* Properties of the display
\* ------------------------------------------------------------------------
\* C29: once an equals has succeeded, and until clear, the result shown by
\* getDisplayState() is the string of lastResult, whatever its value and
\* whatever has been handled since; before any successful equals it is the
\* buffer, or 0 for an empty buffer.
C29_DisplayShowsLastResult ==
    IF lastResult # Null
    THEN getDisplayState(Fields).result = ToStringValue(lastResult)
    ELSE getDisplayState(Fields).result
            = (IF expression = <<>> THEN <<"0">> ELSE expression)

\* ------------------------------------------------------------------------
\* Properties of the percent key
\* ------------------------------------------------------------------------
\* C30: the % key appends the character % to the buffer (after the last
\* result when pressed while Fresh with one), and equals on a buffer that
\* holds a % fails and leaves lastResult and the buffer as they were.
C30_PercentNeverEvaluates ==
    [][/\ ActionCalled("%")' =>
            expression' = (IF isNewExpression /\ lastResult # Null
                           THEN ToStringValue(lastResult) ELSE expression) \o <<"%">>
       /\ (ActionCalled("equals")' /\ Includes(expression, "%")) =>
            /\ ~out'.ok
            /\ call'.ret.kind = "throw"
            /\ UNCHANGED <<expression, lastResult, isNewExpression>>]_vars

\* equals pressed on the buffer 5%5 with the last result 5: the evaluation
\* stopped at the validation and the last result is still 5
C30_Witness ==
    /\ ActionCalled("equals")
    /\ expression = <<"5", "%", "5">>
    /\ lastResult = IntV(5)
    /\ ~out.ok
    /\ out.msg = "Invalid expression"
    /\ ~out.reached

====
